---- MODULE Spec2Model ----
(***************************************************************************)
(* The availability-fetch pipeline of israel-tennis-centers: the edge      *)
(* worker (request router, origin policy, pass-through proxy, court search *)
(* orchestrator with KV cache) and the HTML fragment parser it embeds.     *)
(*                                                                         *)
(* The repository holds three generations of the worker:                   *)
(*   "proxy"   src/api/src/index.js    pass-through proxy only             *)
(*   "batch"   src/unnamed/part_001    + POST /api/search-courts, one JSON *)
(*   "stream"  src/unnamed/part_002    + POST /api/search-courts, SSE      *)
(* env.variant selects the generation that is deployed.                    *)
(***************************************************************************)
EXTENDS Integers, Sequences, FiniteSets, TLC

VARIABLES env, kv, active, run, client

vars == <<env, kv, active, run, client>>

(***************************************************************************)
(* Bounds of the model.                                                    *)
(***************************************************************************)
\* Longest timeSlots list a request carries.
MaxSlots == 4

(***************************************************************************)
(* JavaScript values.                                                      *)
(***************************************************************************)
\* undefined / null (an absent header, an unset binding, a missing field).
Undefined == "(undefined)"

\* Boolean(x) for strings: undefined, null and "" are falsy.
Truthy(x) == x \notin {Undefined, ""}

Min(a, b) == IF a < b THEN a ELSE b

\* f with key k bound to v (obj[k] = v).
Put(f, k, v) == [x \in (DOMAIN f) \cup {k} |-> IF x = k THEN v ELSE f[x]]

\* The empty object {}.
EmptyMap == [x \in {} |-> Undefined]

\* Array.prototype.includes
Includes(seq, x) == \E n \in 1..Len(seq) : seq[n] = x

\* Array.prototype.filter(Boolean)
RECURSIVE FilterBoolean(_)
FilterBoolean(seq) ==
  IF seq = <<>> THEN <<>>
  ELSE IF Truthy(Head(seq)) THEN <<Head(seq)>> \o FilterBoolean(Tail(seq))
       ELSE FilterBoolean(Tail(seq))

(***************************************************************************)
(* Header values the code looks into are kept as sequences of characters.  *)
(***************************************************************************)
\* Array.prototype.join(sep) on character strings; Headers.get() joins the
\* values of a repeated header with ", ".
RECURSIVE Join(_, _)
Join(strs, sep) ==
  IF strs = <<>> THEN <<>>
  ELSE IF Len(strs) = 1 THEN strs[1]
  ELSE strs[1] \o sep \o Join(Tail(strs), sep)

\* str has pat at index i (1-based).
MatchesAt(str, pat, i) ==
  /\ i + Len(pat) - 1 <= Len(str)
  /\ \A n \in 1..Len(pat) : str[i + n - 1] = pat[n]

\* The longest run of characters other than ';' that starts at index i.
RunUpToSemicolon(str, i) ==
  LET stops == {n \in i..Len(str) : str[n] = ";"}
      end   == IF stops = {} THEN Len(str)
               ELSE (CHOOSE n \in stops : \A m \in stops : n <= m) - 1
  IN  SubSeq(str, i, end)

(***************************************************************************)
(* Program constants.                                                      *)
(***************************************************************************)
\* Mutant: the allow-list also names an administration page.
ALLOWED_PATHS_Wide ==
  << "/self_services/login",
     "/self_services/login.js",
     "/self_services/court_invitation",
     "/self_services/set_time_by_unit",
     "/self_services/search_court.js",
     "/admin/users" >>

ALLOWED_PATHS ==
  << "/self_services/login",
     "/self_services/login.js",
     "/self_services/court_invitation",
     "/self_services/set_time_by_unit",
     "/self_services/search_court.js" >>

CACHE_TTL == 600

DefaultOrigin == "https://adielbm.github.io"

DefaultTargetBaseUrl == "https://center.tennis.org.il"

SearchRoute == "/api/search-courts"

SearchCourtPath == "/self_services/search_court.js"

\* batchSize of the streaming handler and of the non-streaming handler.
StreamBatchSize == 2
BatchBatchSize == 3

CorsMethods == "GET, POST, PUT, DELETE, OPTIONS"

(***************************************************************************)
(* HTML fragment parser (the copy embedded in the worker).                 *)
(*                                                                         *)
(* An upstream response text is kept as the facts the parser's regular     *)
(* expressions and substring tests read from it:                           *)
(*   wrapped   the text matches jQuery('#step-2').html('...');             *)
(*   success   the payload contains "alert-success"                        *)
(*   markers   which of the three "unavailable" markers it contains        *)
(*   rows      the matches of rowRegex, in text order, as captured strings *)
(*   headings  the matches of timeRegex (capture 1), in text order         *)
(***************************************************************************)
EmptyHtml ==
  [success |-> FALSE, markers |-> {}, rows |-> <<>>, headings |-> <<>>]

\* extractHtmlFromResponse: the payload, or "" when the wrapper is absent.
ExtractHtmlFromResponse(response) ==
  IF response.wrapped
  THEN [success |-> response.success, markers |-> response.markers,
        rows |-> response.rows, headings |-> response.headings]
  ELSE EmptyHtml

\* Mutant: the failure markers are tested first.
IsNoCourtsAvailable_FailureFirst(html) ==
  \/ "otherTimes" \in html.markers
  \/ "alert-danger" \in html.markers
  \/ "tryOtherTime" \in html.markers

\* isNoCourtsAvailable: the success marker is tested first.
IsNoCourtsAvailable(html) ==
  IF html.success THEN FALSE
  ELSE \/ "otherTimes" \in html.markers
       \/ "alert-danger" \in html.markers
       \/ "tryOtherTime" \in html.markers

\* The percent-encoded strings of the modelled responses and what
\* decodeURIComponent makes of them; a truncated escape raises URIError.
DecodeTable ==
  [e \in {"08%3A00", "09%3A00", "10%3A00", "04%2F12%2F2024 09%3A00"} |->
     CASE e = "08%3A00" -> "08:00"
       [] e = "09%3A00" -> "09:00"
       [] e = "10%3A00" -> "10:00"
       [] OTHER -> "04/12/2024 09:00"]

MalformedURI(s) == s \notin DOMAIN DecodeTable

DecodeURIComponent(s) == DecodeTable[s]

\* s.replace(/\+/g, " ") on the modelled strings.
PlusToSpace(s) ==
  IF s = "04%2F12%2F2024+09%3A00" THEN "04%2F12%2F2024 09%3A00" ELSE s

\* parseInt(s, 10) and parseFloat(s) on the digit strings of the modelled
\* rows; a duration is kept in tenths of an hour.
ParseInt(s) ==
  CASE s = "1" -> 1 [] s = "2" -> 2 [] s = "3" -> 3 [] s = "10" -> 10
    [] s = "101" -> 101 [] s = "102" -> 102 [] s = "110" -> 110
    [] OTHER -> 0

ParseFloatTenths(s) ==
  CASE s = "1.0" -> 10 [] s = "1" -> 10 [] s = "1.5" -> 15 [] s = "2.0" -> 20
    [] OTHER -> 0

\* One slots.push({...}) of parseCourtSlots.
CourtSlot(m) ==
  [courtNumber |-> ParseInt(m.courtNumber),
   courtId     |-> ParseInt(m.court_id),
   duration    |-> ParseFloatTenths(m.duration),
   endTime     |-> DecodeURIComponent(PlusToSpace(m.end_time)),
   startTime   |-> DecodeURIComponent(PlusToSpace(m.start_time))]

\* parseCourtSlots throws URIError at the first row with a malformed escape.
ParseCourtSlotsThrows(html) ==
  \E n \in 1..Len(html.rows) :
    \/ MalformedURI(PlusToSpace(html.rows[n].end_time))
    \/ MalformedURI(PlusToSpace(html.rows[n].start_time))

ParseCourtSlots(html) ==
  [n \in 1..Len(html.rows) |-> CourtSlot(html.rows[n])]

\* parseSuggestedTimes: start times, first occurrence only.
RECURSIVE Dedupe(_, _)
Dedupe(seq, acc) ==
  IF seq = <<>> THEN acc
  ELSE Dedupe(Tail(seq),
              IF Includes(acc, Head(seq)) THEN acc ELSE Append(acc, Head(seq)))

\* Mutant: every heading is listed, repeated or not.
ParseSuggestedTimes_AllHeadings(html) == html.headings

ParseSuggestedTimes(html) == Dedupe(html.headings, <<>>)

\* Mutant: sort() without a comparator orders the numbers (below 100) as
\* strings.
RECURSIVE SortAscending_Lexical(_)
SortAscending_Lexical(S) ==
  IF S = {} THEN <<>>
  ELSE LET Digits(n) == IF n < 10 THEN <<n>> ELSE <<n \div 10, n % 10>>
           Before(a, b) ==
             \/ a = b
             \/ Digits(a)[1] < Digits(b)[1]
             \/ Digits(a)[1] = Digits(b)[1] /\ Len(Digits(a)) < Len(Digits(b))
             \/ /\ Digits(a)[1] = Digits(b)[1]
                /\ Len(Digits(a)) = 2 /\ Len(Digits(b)) = 2
                /\ Digits(a)[2] < Digits(b)[2]
           m == CHOOSE x \in S : \A y \in S : Before(x, y)
       IN  <<m>> \o SortAscending_Lexical(S \ {m})

\* [...set].sort((a, b) => a - b)
RECURSIVE SortAscending(_)
SortAscending(S) ==
  IF S = {} THEN <<>>
  ELSE LET m == CHOOSE x \in S : \A y \in S : x <= y
       IN  <<m>> \o SortAscending(S \ {m})

ParseCourtAvailabilityThrows(response) ==
  LET html == ExtractHtmlFromResponse(response)
  IN  ~IsNoCourtsAvailable(html) /\ ParseCourtSlotsThrows(html)

\* A property that may hold undefined: Defined(v) or Undef.
Defined(v) == <<v>>
Undef == <<>>

\* Mutant: the result of the scan is returned without the test for zero
\* slots.
ParseCourtAvailability_NoDowngrade(response) ==
  LET html == ExtractHtmlFromResponse(response)
  IN  IF IsNoCourtsAvailable(html)
      THEN LET suggestedTimes == ParseSuggestedTimes(html)
           IN  [status |-> "no-courts", courts |-> <<>>, slots |-> <<>>,
                suggestedTimes |->
                  IF Len(suggestedTimes) > 0 THEN Defined(suggestedTimes)
                  ELSE Undef]
      ELSE LET slots  == ParseCourtSlots(html)
               courts == SortAscending({slots[n].courtNumber : n \in 1..Len(slots)})
           IN  [status |-> "available", courts |-> courts, slots |-> slots]

\* parseCourtAvailability, for a response on which it does not throw.
ParseCourtAvailability(response) ==
  LET html == ExtractHtmlFromResponse(response)
  IN  IF IsNoCourtsAvailable(html)
      THEN LET suggestedTimes == ParseSuggestedTimes(html)
           IN  [status |-> "no-courts", courts |-> <<>>, slots |-> <<>>,
                suggestedTimes |->
                  IF Len(suggestedTimes) > 0 THEN Defined(suggestedTimes)
                  ELSE Undef]
      ELSE LET slots  == ParseCourtSlots(html)
               courts == SortAscending({slots[n].courtNumber : n \in 1..Len(slots)})
           IN  IF Len(slots) = 0
               THEN [status |-> "no-courts", courts |-> <<>>, slots |-> <<>>]
               ELSE [status |-> "available", courts |-> courts, slots |-> slots]

\* JSON.stringify / JSON.parse of one result object: a property whose value
\* is undefined is dropped.
JsonResult(result) ==
  IF "suggestedTimes" \in DOMAIN result
  THEN IF result.suggestedTimes = Undef
       THEN [status |-> result.status, courts |-> result.courts,
             slots |-> result.slots]
       ELSE [result EXCEPT !.suggestedTimes = result.suggestedTimes[1]]
  ELSE result

JsonResults(results) == [t \in DOMAIN results |-> JsonResult(results[t])]

(***************************************************************************)
(* The environment: requests, upstream replies, deployments.               *)
(***************************************************************************)
CustomOrigin == "https://tennis.example"
EvilOrigin == "https://evil.example"

\* The Origin header of a request: absent, or a serialized origin.
Origins == {Undefined, DefaultOrigin, CustomOrigin, EvilOrigin}

BaseSlots == <<"08:00", "09:00", "10:00", "11:00", "12:00", "13:00">>

\* The timeSlots arrays of the modelled requests: the first n opening hours,
\* and arrays that name the first hour twice.
TimeSlotLists ==
  {SubSeq(BaseSlots, 1, n) : n \in 0..MaxSlots}
    \cup {Append(SubSeq(BaseSlots, 1, n), BaseSlots[1]) : n \in 1..(MaxSlots - 2)}

SessionId == "_session_id=abc123"
AuthenticityToken == "tok-XYZ"
Date == "04/12/2024"

SearchBody(unitId, timeSlots) ==
  [unitId |-> unitId, date |-> Date, timeSlots |-> timeSlots,
   sessionId |-> SessionId, authenticityToken |-> AuthenticityToken]

BodyFields == {"unitId", "date", "timeSlots", "sessionId", "authenticityToken"}

ValidBodies == {SearchBody("12", l) : l \in TimeSlotLists}

\* Bodies that lack one field, or carry an empty unitId.
InvalidBodies ==
  {[f \in BodyFields \ {g} |-> SearchBody("12", <<"08:00">>)[f]] : g \in BodyFields}
    \cup {SearchBody("", <<"08:00">>)}

\* A body request.json() rejects, the JSON text null, and the body of a
\* request without one.
BadJson == [malformed |-> TRUE]
JsonNull == [null |-> TRUE]
NoBody == [none |-> TRUE]

SearchRequests ==
  {[method |-> "POST", path |-> SearchRoute, origin |-> o,
    sessionCookie |-> Undefined, body |-> b] :
     o \in Origins, b \in ValidBodies \cup InvalidBodies \cup {BadJson, JsonNull}}

OtherRequests ==
  {[method |-> m, path |-> p, origin |-> o, sessionCookie |-> c, body |-> NoBody] :
     m \in {"OPTIONS", "GET", "POST"},
     p \in {SearchRoute, "/proxy/self_services/login", "/proxy/admin/users", "/proxy"},
     o \in Origins,
     c \in {Undefined, SessionId}}
    \ {q \in [method : {"POST"}, path : {SearchRoute}, origin : Origins,
              sessionCookie : {Undefined, SessionId}, body : {NoBody}] : TRUE}

Requests == SearchRequests \cup OtherRequests

\* Upstream response texts of search_court.js.
RawAvailable ==
  [wrapped |-> TRUE, success |-> TRUE, markers |-> {},
   rows |-> << [courtNumber |-> "3", court_id |-> "101", duration |-> "1.0",
                end_time |-> "09%3A00", start_time |-> "08%3A00"] >>,
   headings |-> <<>>]

RawNoCourts ==
  [wrapped |-> TRUE, success |-> FALSE, markers |-> {"tryOtherTime"},
   rows |-> <<>>, headings |-> <<"10:00">>]

RawMalformed ==
  [wrapped |-> TRUE, success |-> TRUE, markers |-> {},
   rows |-> << [courtNumber |-> "3", court_id |-> "101", duration |-> "1.0",
                end_time |-> "09%3A00", start_time |-> "%E0%A4%A"] >>,
   headings |-> <<>>]

NetworkErrorMessage == "Network connection lost."
URIErrorMessage == "URI malformed"

\* What one probe of search_court.js can come to: fetch throws, or upstream
\* answers with a status and a text.
ProbeReplies ==
  {[throws |-> TRUE]}
    \cup {[throws |-> FALSE, ok |-> FALSE, status |-> "500", text |-> RawNoCourts]}
    \cup {[throws |-> FALSE, ok |-> TRUE, status |-> "200", text |-> t] :
            t \in {RawAvailable, RawMalformed}}

\* Characters of the cookies the upstream site sets.
SessionCookieName == <<"_", "s", "e", "s", "s", "i", "o", "n", "_", "i", "d">>
CookieAttributes == <<";", " ", "p", "a", "t", "h", "=", "/">>

\* The session cookie as the upstream site sets it, the same without
\* attributes, a language cookie, and a cookie whose name ends like the
\* session cookie's.
SessionCookie ==
  [name |-> SessionCookieName, value |-> <<"n", "4", "5", "6">>, attributes |-> TRUE]
BareSessionCookie == [SessionCookie EXCEPT !.attributes = FALSE]
LanguageCookie ==
  [name |-> <<"l", "a", "n", "g">>, value |-> <<"h", "e">>, attributes |-> TRUE]
LegacySessionCookie ==
  [name |-> <<"o", "l", "d">> \o SessionCookieName, value |-> <<"o", "7">>,
   attributes |-> TRUE]

\* The Set-Cookie headers of one upstream response, in order.
UpstreamCookieLists ==
  { <<>>,
    <<SessionCookie>>,
    <<LanguageCookie>>,
    <<LanguageCookie, SessionCookie>>,
    <<BareSessionCookie, LanguageCookie>>,
    <<LegacySessionCookie>> }

\* What a forwarded proxy request can come to.
ProxyReplies ==
  {[throws |-> TRUE]}
    \cup {[throws |-> FALSE, status |-> 200, cookies |-> c] : c \in UpstreamCookieLists}

Variants == {"proxy", "batch", "stream"}

Runs == {1, 2}

(***************************************************************************)
(* State.                                                                  *)
(*   env     the deployment: variant, COURTS_CACHE bound or not,           *)
(*           ALLOWED_ORIGIN, TARGET_BASE_URL                               *)
(*   kv      the KV namespace behind COURTS_CACHE: key -> stored entry     *)
(*   active  the invocations of fetch() this behaviour runs                *)
(*   run     per invocation: where the handler stands and what it did      *)
(*   client  the browser side: the call in progress in the page's modules  *)
(*           (parser, time-slot filters, AuthService)                      *)
(***************************************************************************)
NoRequest ==
  [method |-> Undefined, path |-> Undefined, origin |-> Undefined,
   sessionCookie |-> Undefined, body |-> NoBody]
NoResponse ==
  [status |-> 0, kind |-> "none", body |-> Undefined, headers |-> EmptyMap]

IdleRun ==
  [pc            |-> "idle",
   req           |-> NoRequest,
   allowedOrigin |-> Undefined,
   i             |-> 0,          \* the loop variable of the group loop
   issued        |-> 0,          \* probes issued so far (positions 1..issued)
   settled       |-> EmptyMap,   \* position -> what its promise resolved to
   recorded      |-> 0,          \* positions whose result was put in results
   outOfOrder    |-> FALSE,      \* while a group is settled and recorded:
                                 \* one of its probes settled before one
                                 \* listed ahead of it
   results       |-> EmptyMap,   \* the results object
   events        |-> <<>>,       \* chunks written to the SSE stream
   closed        |-> FALSE,      \* writer.close() was called
   response      |-> NoResponse, \* the Response fetch() returned
   upstream      |-> <<>>,       \* requests sent to the upstream site
   proxied       |-> Undef,      \* the upstream reply to the proxied request
   kvlog         |-> <<>>]       \* calls made on env.COURTS_CACHE

\* The allow-set of the origin check.
AllowedOrigins(e) ==
  IF e.variant = "stream"
  THEN FilterBoolean(<<e.ALLOWED_ORIGIN, DefaultOrigin>>)
  ELSE <<IF Truthy(e.ALLOWED_ORIGIN) THEN e.ALLOWED_ORIGIN ELSE DefaultOrigin>>

\* Mutant: the test for a present Origin header is dropped.
OriginRejected_NoPresenceTest(e, origin) == ~Includes(AllowedOrigins(e), origin)

\* if (origin && !allowedOrigins.includes(origin))
OriginRejected(e, origin) ==
  Truthy(origin) /\ ~Includes(AllowedOrigins(e), origin)

\* The allowedOrigin the handlers put in Access-Control-Allow-Origin.
NegotiatedOrigin(e, origin) ==
  IF e.variant = "stream"
  THEN IF Truthy(origin) THEN origin ELSE AllowedOrigins(e)[1]
  ELSE AllowedOrigins(e)[1]

TargetBaseUrl(e) ==
  IF Truthy(e.TARGET_BASE_URL) THEN e.TARGET_BASE_URL ELSE DefaultTargetBaseUrl

\* handleCORS
HandleCORSResponse(e, req) ==
  [status |-> 204, kind |-> "none", body |-> Undefined,
   headers |->
     [h \in {"Access-Control-Allow-Origin", "Access-Control-Allow-Methods",
             "Access-Control-Allow-Headers", "Access-Control-Max-Age"} |->
        CASE h = "Access-Control-Allow-Origin" ->
               IF e.variant = "proxy" THEN DefaultOrigin
               ELSE IF e.variant = "batch" THEN AllowedOrigins(e)[1]
               ELSE IF Includes(AllowedOrigins(e), req.origin) THEN req.origin
                    ELSE AllowedOrigins(e)[1]
          [] h = "Access-Control-Allow-Methods" -> CorsMethods
          [] h = "Access-Control-Allow-Headers" ->
               IF e.variant = "proxy" THEN "Content-Type, X-Session-Cookie"
               ELSE "Content-Type, X-Session-Cookie, X-Auth-Token"
          [] OTHER -> "86400"]]

\* new Response(text, { status })
TextResponse(status, text) ==
  [status |-> status, kind |-> "text", body |-> text, headers |-> EmptyMap]

\* jsonResponse(data, { status, allowedOrigin })
JsonResponse(data, status, allowedOrigin) ==
  [status |-> status, kind |-> "json", body |-> data,
   headers |->
     [h \in {"Content-Type", "Access-Control-Allow-Origin",
             "Access-Control-Allow-Methods", "Access-Control-Allow-Headers",
             "Access-Control-Expose-Headers"} |->
        CASE h = "Content-Type" -> "application/json"
          [] h = "Access-Control-Allow-Origin" -> allowedOrigin
          [] h = "Access-Control-Allow-Methods" -> CorsMethods
          [] h = "Access-Control-Allow-Headers" ->
               "Content-Type, X-Session-Cookie, X-Auth-Token"
          [] OTHER -> "X-Session-Cookie"]]

\* new Response(readable, { headers }) of the streaming handler
StreamResponse(allowedOrigin) ==
  [status |-> 200, kind |-> "stream", body |-> Undefined,
   headers |->
     [h \in {"Content-Type", "Cache-Control", "Connection",
             "Access-Control-Allow-Origin", "Access-Control-Allow-Methods",
             "Access-Control-Allow-Headers"} |->
        CASE h = "Content-Type" -> "text/event-stream"
          [] h = "Cache-Control" -> "no-cache"
          [] h = "Connection" -> "keep-alive"
          [] h = "Access-Control-Allow-Origin" -> allowedOrigin
          [] h = "Access-Control-Allow-Methods" -> CorsMethods
          [] OTHER -> "Content-Type, X-Session-Cookie, X-Auth-Token"]]

\* url.pathname.replace(/^\/proxy/, '')
StripProxyPrefix(path) ==
  CASE path = "/proxy" -> ""
    [] path = "/proxy/self_services/login" -> "/self_services/login"
    [] path = "/proxy/admin/users" -> "/admin/users"
    [] OTHER -> path

\* The request is dispatched to the search handler.
IsSearchDispatch(e, req) ==
  e.variant # "proxy" /\ req.path = SearchRoute /\ req.method = "POST"

Finish(rn, response) == [rn EXCEPT !.pc = "done", !.response = response]

(***************************************************************************)
(* The search handler: handleStreamingCourtSearch ("stream") and           *)
(* handleBatchCourtSearch ("batch").                                       *)
(***************************************************************************)
\* const cacheKey = `courts:${unitId}:${date}`
CacheKey(unitId, date) == "courts:" \o unitId \o ":" \o date

\* if (!unitId || !date || !timeSlots || !sessionId || !authenticityToken)
\* (an array, even an empty one, is truthy)
MissingParameters(body) ==
  \E f \in BodyFields :
    \/ f \notin DOMAIN body
    \/ f # "timeSlots" /\ ~Truthy(body[f])

MissingParametersMessage ==
  "Missing required parameters: unitId, date, timeSlots, sessionId, authenticityToken"

JsonErrorMessage == "Unexpected token in JSON"

\* const { unitId, ... } = body with body null throws TypeError.
DestructureErrorMessage ==
  "Cannot destructure property 'unitId' of 'body' as it is null."

\* The message of a failed KV read.
KVErrorMessage == "KV GET failed: 500 Internal Server Error"

SetupErrorPrefix(e) ==
  IF e.variant = "stream" THEN "Stream setup error: " ELSE "Batch search error: "

\* Mutant: the binding is used without the test.
CacheConfigured_Always(e) == TRUE

\* if (env.COURTS_CACHE)
CacheConfigured(e) == e.COURTS_CACHE

\* Mutant: twice as many probes go out together.
BatchSize_Doubled(e) ==
  2 * (IF e.variant = "stream" THEN StreamBatchSize ELSE BatchBatchSize)

BatchSize(e) == IF e.variant = "stream" THEN StreamBatchSize ELSE BatchBatchSize

\* The last position of timeSlots.slice(i, i + batchSize).
GroupEnd(e, rn) == Min(rn.i + BatchSize(e), Len(rn.req.body.timeSlots))

\* The fetch of one probe: URL, method, headers and form data.
ProbeRequest(e, body, timeSlot) ==
  [url    |-> TargetBaseUrl(e) \o SearchCourtPath,
   path   |-> SearchCourtPath,
   method |-> "POST",
   cookie |-> body.sessionId,
   form   |-> [authenticity_token |-> body.authenticityToken,
               unit_id    |-> body.unitId,
               court_type |-> "1",
               start_date |-> body.date,
               start_hour |-> timeSlot,
               duration   |-> "1"]]

\* Mutant: no slicing, every remaining slot is probed at once.
IssueGroup_All(e, rn, i) ==
  LET ts == rn.req.body.timeSlots
  IN  [rn EXCEPT !.pc = "group", !.i = i, !.issued = Len(ts), !.outOfOrder = FALSE,
                 !.upstream = @ \o [k \in 1..(Len(ts) - i) |->
                                      ProbeRequest(e, rn.req.body, ts[i + k])]]

\* The 'error' event of the streaming handler.
ErrorEvent(message) == [type |-> "error", error |-> message]

\* Mutant: the error event is written and the stream is left open.
TaskFailure_NoClose(e, rn, message) ==
  IF e.variant = "stream"
  THEN [rn EXCEPT !.pc = "done", !.events = Append(@, ErrorEvent(message))]
  ELSE Finish(rn, JsonResponse([error |-> SetupErrorPrefix(e) \o message],
                               500, rn.allowedOrigin))

\* An exception inside the orchestration. Streaming: the catch of the
\* background task writes the 'error' event and finally closes the writer.
\* Non-streaming: the handler's catch answers 500.
TaskFailure(e, rn, message) ==
  IF e.variant = "stream"
  THEN [rn EXCEPT !.pc = "done", !.events = Append(@, ErrorEvent(message)),
                  !.closed = TRUE]
  ELSE Finish(rn, JsonResponse([error |-> SetupErrorPrefix(e) \o message],
                               500, rn.allowedOrigin))

\* timeSlots of the body is a JSON array. A JSON string passes the
\* parameter test and has a length, and its slice has no map method.
TimeSlotsIsArray(body) == "timeSlotsIsString" \notin DOMAIN body

MapErrorMessage == "batch.map is not a function"

\* batch.map(async (timeSlot) => ...): every fetch of the group is issued
\* before the first await.
IssueGroup(e, rn, i) ==
  LET ts  == rn.req.body.timeSlots
      end == Min(i + BatchSize(e), Len(ts))
  IN  IF ~TimeSlotsIsArray(rn.req.body)
      THEN TaskFailure(e, [rn EXCEPT !.i = i], MapErrorMessage)
      ELSE [rn EXCEPT !.pc = "group", !.i = i, !.issued = end, !.outOfOrder = FALSE,
                      !.upstream = @ \o [k \in 1..(end - i) |->
                                           ProbeRequest(e, rn.req.body, ts[i + k])]]

\* Mutant: the streaming handler has no try/catch around the probe either.
ProbeRejects_NoCatch(e, reply) ==
  \/ reply.throws
  \/ reply.ok /\ ParseCourtAvailabilityThrows(reply.text)

\* The probe's promise is rejected: only the streaming handler wraps the
\* fetch and the parse in try/catch.
ProbeRejects(e, reply) ==
  /\ e.variant = "batch"
  /\ \/ reply.throws
     \/ reply.ok /\ ParseCourtAvailabilityThrows(reply.text)

ProbeErrorMessage(reply) ==
  IF reply.throws THEN NetworkErrorMessage ELSE URIErrorMessage

\* What the probe's promise resolves to.
ProbeResult(timeSlot, reply) ==
  IF reply.throws
  THEN [timeSlot |-> timeSlot, error |-> NetworkErrorMessage]
  ELSE IF ~reply.ok
  THEN [timeSlot |-> timeSlot, error |-> "HTTP " \o reply.status]
  ELSE IF ParseCourtAvailabilityThrows(reply.text)
  THEN [timeSlot |-> timeSlot, error |-> URIErrorMessage]
  ELSE [timeSlot |-> timeSlot, availability |-> ParseCourtAvailability(reply.text)]

\* if (error) results[timeSlot] = { status: 'error', error }
\* else results[timeSlot] = availability
RecordResult(results, p) ==
  IF "error" \in DOMAIN p /\ Truthy(p.error)
  THEN Put(results, p.timeSlot, [status |-> "error", error |-> p.error])
  ELSE Put(results, p.timeSlot, p.availability)

\* batchResults.forEach(...) over positions from..to
RECURSIVE RecordAll(_, _, _, _)
RecordAll(results, settled, from, to) ==
  IF from > to THEN results
  ELSE RecordAll(RecordResult(results, settled[from]), settled, from + 1, to)

ResultEvent(timeSlot, data) ==
  [type |-> "result", timeSlot |-> timeSlot, data |-> JsonResult(data)]

CompleteEvent(body, results) ==
  [type |-> "complete", unitId |-> body.unitId, date |-> body.date,
   results |-> JsonResults(results)]

\* Mutant: the request body is spread into the stored object.
CacheData_WithBody(body, results) ==
  [unitId |-> body.unitId, date |-> body.date,
   sessionId |-> body.sessionId, authenticityToken |-> body.authenticityToken,
   results |-> JsonResults(results), cached |-> FALSE]

\* { unitId, date, results, cached: false } as JSON.stringify stores it.
CacheData(body, results) ==
  [unitId |-> body.unitId, date |-> body.date,
   results |-> JsonResults(results), cached |-> FALSE]

\* Mutant: the entry is kept for a day.
PutOptions_Day == [expirationTtl |-> 86400]

\* The options of COURTS_CACHE.put
PutOptions == [expirationTtl |-> CACHE_TTL]

\* Mutant: the streaming handler awaits Promise.race instead of Promise.all.
AllSettled_Any(settled, issued) ==
  IF env.variant = "stream"
  THEN \E k \in DOMAIN settled : k > issued - StreamBatchSize
  ELSE DOMAIN settled = 1..issued

\* await Promise.all(batchPromises) resolves: every probe issued so far has
\* settled (the earlier groups did before this one was issued).
AllSettled(settled, issued) == DOMAIN settled = 1..issued

\* Mutant: the 'complete' event is not written.
AfterLoop_Silent(e, rn) == [rn EXCEPT !.pc = "cache"]

\* After the group loop. Streaming: the 'complete' event is written.
AfterLoop(e, rn) ==
  IF e.variant = "stream"
  THEN [rn EXCEPT !.pc = "cache",
                  !.events = Append(@, CompleteEvent(rn.req.body, rn.results))]
  ELSE [rn EXCEPT !.pc = "cache"]

\* Mutant: the loop stops before a last group that is not full.
RunLoop_FullGroupsOnly(e, rn, i) ==
  IF i + BatchSize(e) <= Len(rn.req.body.timeSlots) THEN IssueGroup(e, rn, i)
  ELSE AfterLoop(e, [rn EXCEPT !.i = i])

\* for (let i = ...; i < timeSlots.length; ...)
RunLoop(e, rn, i) ==
  IF i < Len(rn.req.body.timeSlots) THEN IssueGroup(e, rn, i)
  ELSE AfterLoop(e, [rn EXCEPT !.i = i])

\* A cache miss (or no cache): the orchestration starts. The streaming
\* handler returns the SSE response while its background task runs.
StartRun(e, rn) ==
  IF e.variant = "stream"
  THEN [RunLoop(e, rn, 0) EXCEPT !.response = StreamResponse(rn.allowedOrigin)]
  ELSE RunLoop(e, rn, 0)

\* Mutant: the stored entry is returned as it is, still tagged cached:false.
CacheHitBody_Untagged(cached) == cached

\* { ...cached, cached: true }
CacheHitBody(cached) == Put(cached, "cached", TRUE)

(***************************************************************************)
(* Initial states.                                                         *)
(***************************************************************************)
\* The entry a completed earlier search over body.timeSlots left in the KV
\* namespace, its probes having come to replies.
StoredBy(body, replies) ==
  [value   |-> CacheData(body,
                 RecordAll(EmptyMap,
                           [k \in 1..Len(replies) |->
                              ProbeResult(body.timeSlots[k], replies[k])],
                           1, Len(replies))),
   options |-> PutOptions]

EarlierReplies ==
  << [throws |-> FALSE, ok |-> TRUE, status |-> "200", text |-> RawNoCourts] >>

\* The KV namespace when the behaviour starts: empty, or holding the entry of
\* an earlier search of unit 12 or of unit 8 that has not expired yet.
InitialStores ==
  {EmptyMap}
    \cup {Put(EmptyMap, CacheKey(u, Date),
              StoredBy(SearchBody(u, <<"08:00">>), EarlierReplies)) : u \in {"12", "8"}}

Deployments ==
  {e \in [variant : Variants, COURTS_CACHE : BOOLEAN,
          ALLOWED_ORIGIN : {Undefined, CustomOrigin},
          TARGET_BASE_URL : {Undefined}] :
     /\ e.variant = "proxy" => ~e.COURTS_CACHE
     /\ e.ALLOWED_ORIGIN = CustomOrigin => ~e.COURTS_CACHE}

InitCommon ==
  /\ env \in Deployments
  /\ kv \in IF env.COURTS_CACHE THEN InitialStores ELSE {EmptyMap}
  /\ run = [r \in Runs |-> IdleRun]

\* No call is in progress in the page.
IdleClient == [pc |-> "idle"]

Init == InitCommon /\ active = {1} /\ client = IdleClient

(***************************************************************************)
(* fetch(request, env): from the arrival of a request to the first await.  *)
(***************************************************************************)
Arrive(r, req) ==
  /\ r \in active
  /\ run[r].pc = "idle"
  /\ req \in Requests

\* CORS preflight
HandleCORS(r) ==
  \E req \in Requests :
    /\ Arrive(r, req)
    /\ req.method = "OPTIONS"
    /\ run' = [run EXCEPT ![r] =
                 Finish([@ EXCEPT !.req = req], HandleCORSResponse(env, req))]
    /\ UNCHANGED <<env, kv, active, client>>

\* Origin check
RejectOrigin(r) ==
  \E req \in Requests :
    /\ Arrive(r, req)
    /\ req.method # "OPTIONS"
    /\ OriginRejected(env, req.origin)
    /\ run' = [run EXCEPT ![r] =
                 Finish([@ EXCEPT !.req = req], TextResponse(403, "Forbidden"))]
    /\ UNCHANGED <<env, kv, active, client>>

\* The request passed the preflight test and the origin check.
Accepted(r, req) ==
  /\ Arrive(r, req)
  /\ req.method # "OPTIONS"
  /\ ~OriginRejected(env, req.origin)

\* Dispatch to the search handler, which awaits request.json().
RouteSearch(r) ==
  \E req \in Requests :
    /\ Accepted(r, req)
    /\ IsSearchDispatch(env, req)
    /\ run' = [run EXCEPT ![r] =
                 [@ EXCEPT !.pc = "json", !.req = req,
                           !.allowedOrigin = NegotiatedOrigin(env, req.origin)]]
    /\ UNCHANGED <<env, kv, active, client>>

\* if (!path)
ProxyMissingPath(r) ==
  \E req \in Requests :
    /\ Accepted(r, req)
    /\ ~IsSearchDispatch(env, req)
    /\ StripProxyPrefix(req.path) = ""
    /\ run' = [run EXCEPT ![r] =
                 Finish([@ EXCEPT !.req = req],
                        TextResponse(400, "Bad Request: Missing path"))]
    /\ UNCHANGED <<env, kv, active, client>>

\* if (!ALLOWED_PATHS.includes(path))
RejectPath(r) ==
  \E req \in Requests :
    /\ Accepted(r, req)
    /\ ~IsSearchDispatch(env, req)
    /\ StripProxyPrefix(req.path) # ""
    /\ ~Includes(ALLOWED_PATHS, StripProxyPrefix(req.path))
    /\ run' = [run EXCEPT ![r] =
                 Finish([@ EXCEPT !.req = req],
                        TextResponse(403, "Forbidden: Path not allowed"))]
    /\ UNCHANGED <<env, kv, active, client>>

\* request.headers.entries(): the headers of the client's request, names in
\* lower case as the iteration gives them.
RequestHeaders(req) ==
  LET names == {"host", "accept"}
                 \cup (IF req.origin = Undefined THEN {} ELSE {"origin"})
                 \cup (IF req.sessionCookie = Undefined THEN {}
                       ELSE {"x-session-cookie"})
  IN  [h \in names |->
         CASE h = "host" -> "itec-cors-proxy.workers.example"
           [] h = "accept" -> "*/*"
           [] h = "origin" -> req.origin
           [] OTHER -> req.sessionCookie]

\* targetHeaders: the copy loop, then the Cookie header.
TargetHeaders(req) ==
  LET copied == {h \in DOMAIN RequestHeaders(req) :
                   h # "origin" /\ h # "host" /\ h # "x-session-cookie"}
      names  == IF Truthy(req.sessionCookie) THEN copied \cup {"cookie"} ELSE copied
  IN  [h \in names |->
         IF h = "cookie" /\ Truthy(req.sessionCookie) THEN req.sessionCookie
         ELSE RequestHeaders(req)[h]]

\* The outbound request of the pass-through proxy.
ProxyRequest(e, req) ==
  [url     |-> TargetBaseUrl(e) \o StripProxyPrefix(req.path),
   path    |-> StripProxyPrefix(req.path),
   method  |-> req.method,
   cookie  |-> IF Truthy(req.sessionCookie) THEN req.sessionCookie ELSE Undefined,
   headers |-> TargetHeaders(req)]

\* The path is allow-listed: the request is forwarded.
ProxyForward(r) ==
  \E req \in Requests :
    /\ Accepted(r, req)
    /\ ~IsSearchDispatch(env, req)
    /\ Includes(ALLOWED_PATHS, StripProxyPrefix(req.path))
    /\ run' = [run EXCEPT ![r] =
                 [@ EXCEPT !.pc = "proxy", !.req = req,
                           !.allowedOrigin = NegotiatedOrigin(env, req.origin),
                           !.upstream = Append(@, ProxyRequest(env, req))]]
    /\ UNCHANGED <<env, kv, active, client>>

\* One Set-Cookie header: name=value and the attributes.
CookieString(c) ==
  c.name \o <<"=">> \o c.value \o (IF c.attributes THEN CookieAttributes ELSE <<>>)

\* response.headers.get('set-cookie'): the values joined with ", "
\* (<<>> stands for null, no such header).
SetCookieHeader(cookies) ==
  Join([n \in 1..Len(cookies) |-> CookieString(cookies[n])], <<",", " ">>)

\* response.headers.entries(): the headers of the upstream response, names
\* in lower case as the iteration gives them.
UpstreamHeaders(reply) ==
  [h \in {"content-type"} \cup (IF reply.cookies = <<>> THEN {} ELSE {"set-cookie"}) |->
     IF h = "content-type" THEN "text/html; charset=utf-8"
     ELSE SetCookieHeader(reply.cookies)]

\* "_session_id="
SessionIdEq == SessionCookieName \o <<"=">>

\* setCookieHeaders.match(/_session_id=([^;]+)/): capture group 1 of the
\* leftmost match, <<>> when there is none.
SessionMatch(setCookie) ==
  LET starts == {i \in 1..Len(setCookie) :
                   /\ MatchesAt(setCookie, SessionIdEq, i)
                   /\ i + Len(SessionIdEq) <= Len(setCookie)
                   /\ setCookie[i + Len(SessionIdEq)] # ";"}
  IN  IF starts = {} THEN <<>>
      ELSE RunUpToSemicolon(setCookie,
             (CHOOSE i \in starts : \A j \in starts : i <= j) + Len(SessionIdEq))

\* The response of the pass-through proxy to an upstream reply.
ProxyResponse(rn, reply) ==
  LET cors   == {"Access-Control-Allow-Origin", "Access-Control-Allow-Methods",
                 "Access-Control-Allow-Headers", "Access-Control-Expose-Headers"}
      copied == {h \in DOMAIN UpstreamHeaders(reply) : h # "set-cookie"}
      setCookieHeaders == SetCookieHeader(reply.cookies)
      sessionMatch ==
        IF setCookieHeaders # <<>> THEN SessionMatch(setCookieHeaders) ELSE <<>>
      names == copied \cup cors
                 \cup (IF sessionMatch # <<>> THEN {"X-Session-Cookie"} ELSE {})
  IN  [status |-> reply.status, kind |-> "upstream", body |-> Undefined,
       headers |->
         [h \in names |->
            CASE h = "Access-Control-Allow-Origin" -> rn.allowedOrigin
              [] h = "Access-Control-Allow-Methods" -> CorsMethods
              [] h = "Access-Control-Allow-Headers" -> "Content-Type, X-Session-Cookie"
              [] h = "Access-Control-Expose-Headers" -> "X-Session-Cookie"
              [] h = "X-Session-Cookie" -> SessionIdEq \o sessionMatch
              [] OTHER -> UpstreamHeaders(reply)[h]]]

\* await fetch(proxyRequest) settles.
ProxyReply(r) ==
  \E reply \in ProxyReplies :
    /\ r \in active
    /\ run[r].pc = "proxy"
    /\ run' = [run EXCEPT ![r] =
                 IF reply.throws
                 THEN Finish(@, TextResponse(500, "Proxy Error: " \o NetworkErrorMessage))
                 ELSE Finish([@ EXCEPT !.proxied = Defined(reply)],
                             ProxyResponse(@, reply))]
    /\ UNCHANGED <<env, kv, active, client>>

(***************************************************************************)
(* The search handler, step by step (one action per resumption).           *)
(***************************************************************************)
\* await request.json() settles; validation; the cache lookup is started.
ParseBody(r) ==
  /\ r \in active
  /\ run[r].pc = "json"
  /\ LET rn   == run[r]
         body == rn.req.body
     IN  run' = [run EXCEPT ![r] =
           IF body = BadJson
           THEN Finish(rn, JsonResponse(
                  [error |-> SetupErrorPrefix(env) \o JsonErrorMessage],
                  500, rn.allowedOrigin))
           ELSE IF body = JsonNull
           THEN Finish(rn, JsonResponse(
                  [error |-> SetupErrorPrefix(env) \o DestructureErrorMessage],
                  500, rn.allowedOrigin))
           ELSE IF MissingParameters(body)
           THEN Finish(rn, JsonResponse([error |-> MissingParametersMessage],
                                        400, rn.allowedOrigin))
           ELSE IF CacheConfigured(env)
           THEN [rn EXCEPT !.pc = "cache_get"]
           ELSE StartRun(env, rn)]
  /\ UNCHANGED <<env, kv, active, client>>

\* Mutant: the catch answers in plain text.
SetupFailure_PlainText(e, rn, message) == Finish(rn, TextResponse(500, message))

\* The catch of the handler: jsonResponse({ error: `... error: ${message}` },
\* { status: 500, allowedOrigin })
SetupFailure(e, rn, message) ==
  Finish(rn, JsonResponse([error |-> SetupErrorPrefix(e) \o message],
                          500, rn.allowedOrigin))

\* await env.COURTS_CACHE.get(cacheKey, 'json') settles; kvlog keeps what
\* the call returned. The read can also fail (the KV service answers with an
\* error, or the stored value is not JSON): the promise is rejected and the
\* handler's catch answers.
CacheGet(r) ==
  \E fails \in BOOLEAN :
    /\ r \in active
    /\ run[r].pc = "cache_get"
    /\ LET cacheKey == CacheKey(run[r].req.body.unitId, run[r].req.body.date)
           hit      == cacheKey \in DOMAIN kv
           rn       == [run[r] EXCEPT !.kvlog =
                          Append(@, [op |-> "get", key |-> cacheKey, hit |-> hit,
                                     returned |-> IF hit THEN kv[cacheKey].value
                                                  ELSE EmptyMap])]
           thrown   == [run[r] EXCEPT !.kvlog =
                          Append(@, [op |-> "get", key |-> cacheKey, hit |-> FALSE,
                                     returned |-> EmptyMap, threw |-> TRUE])]
       IN  run' = [run EXCEPT ![r] =
             IF fails
             THEN SetupFailure(env, thrown, KVErrorMessage)
             ELSE IF hit
             THEN Finish(rn, JsonResponse(CacheHitBody(kv[cacheKey].value),
                                          200, rn.allowedOrigin))
             ELSE StartRun(env, rn)]
    /\ UNCHANGED <<env, kv, active, client>>

\* One probe in flight settles. The last one of the group resolves
\* Promise.all; in the non-streaming handler a rejection rejects Promise.all
\* at once, and the handler's catch answers 500.
Settle(r) ==
  \E k \in 1..MaxSlots + 1, reply \in ProbeReplies :
    /\ r \in active
    /\ run[r].pc = "group"
    /\ k <= run[r].issued
    /\ k \notin DOMAIN run[r].settled
    /\ LET rn      == run[r]
           settled == Put(rn.settled, k,
                          ProbeResult(rn.req.body.timeSlots[k], reply))
       IN  run' = [run EXCEPT ![r] =
             IF ProbeRejects(env, reply)
             THEN Finish(rn, JsonResponse(
                    [error |-> SetupErrorPrefix(env) \o ProbeErrorMessage(reply)],
                    500, rn.allowedOrigin))
             ELSE [rn EXCEPT !.settled = settled,
                             !.outOfOrder =
                               @ \/ \E j \in (rn.i + 1)..(k - 1) : j \notin DOMAIN rn.settled,
                             !.pc = IF AllSettled(settled, rn.issued)
                                    THEN "gathered" ELSE "group"]]
    /\ UNCHANGED <<env, kv, active, client>>

\* Streaming: one iteration of for (... of batchResults): the result is
\* recorded and its 'result' event is written.
EmitResult(r) ==
  /\ r \in active
  /\ env.variant = "stream"
  /\ run[r].pc = "gathered"
  /\ run[r].recorded < GroupEnd(env, run[r])
  /\ run[r].recorded + 1 \in DOMAIN run[r].settled
  /\ LET rn      == run[r]
         p       == rn.settled[rn.recorded + 1]
         results == RecordResult(rn.results, p)
     IN  run' = [run EXCEPT ![r] =
           [rn EXCEPT !.results = results,
                      !.recorded = @ + 1,
                      !.events = Append(@, ResultEvent(p.timeSlot, results[p.timeSlot]))]]
  /\ UNCHANGED <<env, kv, active, client>>

\* Streaming: the group's events are written; pause, or leave the loop.
GroupEmitted(r) ==
  /\ r \in active
  /\ env.variant = "stream"
  /\ run[r].pc = "gathered"
  /\ run[r].recorded = GroupEnd(env, run[r])
  /\ LET rn == [run[r] EXCEPT !.outOfOrder = FALSE]
     IN  run' = [run EXCEPT ![r] =
           IF rn.i + BatchSize(env) < Len(rn.req.body.timeSlots)
           THEN [rn EXCEPT !.pc = "delay"]
           ELSE RunLoop(env, rn, rn.i + BatchSize(env))]
  /\ UNCHANGED <<env, kv, active, client>>

\* Mutant: the non-streaming handler goes on to the next group at once.
RecordGroup_NoPause(r) ==
  /\ r \in active
  /\ env.variant = "batch"
  /\ run[r].pc = "gathered"
  /\ LET rn == run[r]
         rec == [rn EXCEPT !.results = RecordAll(rn.results, rn.settled,
                                                 rn.i + 1, GroupEnd(env, rn)),
                           !.recorded = GroupEnd(env, rn),
                           !.outOfOrder = FALSE]
     IN  run' = [run EXCEPT ![r] = RunLoop(env, rec, rn.i + BatchSize(env))]
  /\ UNCHANGED <<env, kv, active, client>>

\* Non-streaming: batchResults.forEach records the group; pause, or leave
\* the loop.
RecordGroup(r) ==
  /\ r \in active
  /\ env.variant = "batch"
  /\ run[r].pc = "gathered"
  /\ LET rn == run[r]
         rec == [rn EXCEPT !.results = RecordAll(rn.results, rn.settled,
                                                 rn.i + 1, GroupEnd(env, rn)),
                           !.recorded = GroupEnd(env, rn),
                           !.outOfOrder = FALSE]
     IN  run' = [run EXCEPT ![r] =
           IF rn.i + BatchSize(env) < Len(rn.req.body.timeSlots)
           THEN [rec EXCEPT !.pc = "delay"]
           ELSE RunLoop(env, rec, rn.i + BatchSize(env))]
  /\ UNCHANGED <<env, kv, active, client>>

\* The setTimeout between two groups fires: the next group is issued.
Delay(r) ==
  /\ r \in active
  /\ run[r].pc = "delay"
  /\ run' = [run EXCEPT ![r] = RunLoop(env, @, @.i + BatchSize(env))]
  /\ UNCHANGED <<env, kv, active, client>>

\* Mutant: the put keeps the slots of the entry already stored that the
\* invocation did not search itself.
CachePut_Merging(r) ==
  /\ r \in active
  /\ run[r].pc = "cache"
  /\ LET rn       == run[r]
         body     == rn.req.body
         cacheKey == CacheKey(body.unitId, body.date)
         stored   == IF cacheKey \in DOMAIN kv THEN kv[cacheKey].value.results
                     ELSE EmptyMap
         merged   == [t \in (DOMAIN stored) \cup (DOMAIN rn.results) |->
                        IF t \in DOMAIN rn.results THEN JsonResult(rn.results[t])
                        ELSE stored[t]]
         entry    == [value |-> [CacheData(body, rn.results) EXCEPT !.results = merged],
                      options |-> PutOptions]
         logged   == IF CacheConfigured(env)
                     THEN [rn EXCEPT !.kvlog = Append(@, [op |-> "put", key |-> cacheKey,
                                                          value |-> entry.value,
                                                          options |-> entry.options])]
                     ELSE rn
     IN  /\ kv' = IF CacheConfigured(env) THEN Put(kv, cacheKey, entry) ELSE kv
         /\ run' = [run EXCEPT ![r] =
              IF env.variant = "stream"
              THEN [logged EXCEPT !.pc = "done", !.closed = TRUE]
              ELSE Finish(logged, JsonResponse(CacheData(body, rn.results),
                                               200, rn.allowedOrigin))]
  /\ UNCHANGED <<env, active, client>>

\* if (env.COURTS_CACHE) await env.COURTS_CACHE.put(cacheKey, ..., { expirationTtl })
\* and what follows it: the JSON response, or writer.close().
CachePut(r) ==
  /\ r \in active
  /\ run[r].pc = "cache"
  /\ LET rn       == run[r]
         body     == rn.req.body
         cacheKey == CacheKey(body.unitId, body.date)
         entry    == [value |-> CacheData(body, rn.results), options |-> PutOptions]
         logged   == IF CacheConfigured(env)
                     THEN [rn EXCEPT !.kvlog = Append(@, [op |-> "put", key |-> cacheKey,
                                                          value |-> entry.value,
                                                          options |-> entry.options])]
                     ELSE rn
     IN  /\ kv' = IF CacheConfigured(env) THEN Put(kv, cacheKey, entry) ELSE kv
         /\ run' = [run EXCEPT ![r] =
              IF env.variant = "stream"
              THEN [logged EXCEPT !.pc = "done", !.closed = TRUE]
              ELSE Finish(logged, JsonResponse(CacheData(body, rn.results),
                                               200, rn.allowedOrigin))]
  /\ UNCHANGED <<env, active, client>>

\* The TTL of an entry elapses: the KV namespace drops it.
Expire ==
  \E key \in DOMAIN kv :
    /\ kv' = [x \in (DOMAIN kv) \ {key} |-> kv[x]]
    /\ UNCHANGED <<env, active, run, client>>

Next ==
  \/ \E r \in Runs :
       \/ HandleCORS(r)
       \/ RejectOrigin(r)
       \/ RouteSearch(r)
       \/ ProxyMissingPath(r)
       \/ RejectPath(r)
       \/ ProxyForward(r)
       \/ ProxyReply(r)
       \/ ParseBody(r)
       \/ CacheGet(r)
       \/ Settle(r)
       \/ EmitResult(r)
       \/ GroupEmitted(r)
       \/ RecordGroup(r)
       \/ Delay(r)
       \/ CachePut(r)
  \/ Expire

Spec == Init /\ [][Next]_vars

(***************************************************************************)
(* Vocabulary of the properties.                                           *)
(***************************************************************************)
\* The invocation was dispatched to the search handler with a valid body.
ValidSearch(rn) ==
  /\ rn.pc \notin {"idle", "json"}
  /\ IsSearchDispatch(env, rn.req)
  /\ rn.allowedOrigin # Undefined
  /\ rn.req.body \in ValidBodies

\* The cache lookup of the invocation found an entry.
CacheHit(rn) == rn.kvlog # <<>> /\ rn.kvlog[1].op = "get" /\ rn.kvlog[1].hit

\* The cache lookup of the invocation was rejected.
CacheReadFailed(rn) == rn.kvlog # <<>> /\ "threw" \in DOMAIN rn.kvlog[1]

\* The invocation went past the cache lookup into the orchestration.
Orchestrated(rn) ==
  ValidSearch(rn) /\ rn.pc # "cache_get" /\ ~CacheHit(rn) /\ ~CacheReadFailed(rn)

TimeSlotsOf(rn) == rn.req.body.timeSlots

RequestedSlots(rn) == {TimeSlotsOf(rn)[k] : k \in 1..Len(TimeSlotsOf(rn))}

IsResultEvent(e) == e.type = "result"
IsCompleteEvent(e) == e.type = "complete"

ResultEvents(rn) == SelectSeq(rn.events, IsResultEvent)
CompleteEvents(rn) == SelectSeq(rn.events, IsCompleteEvent)

\* The puts the invocation made on the cache.
IsPut(c) == c.op = "put"
Puts(rn) == SelectSeq(rn.kvlog, IsPut)

\* The invocation produced its final aggregated map: the 'complete' event
\* of the streaming handler, the 200 response of the non-streaming one.
HasFinalMap(rn) ==
  /\ Orchestrated(rn)
  /\ IF env.variant = "stream" THEN CompleteEvents(rn) # <<>>
     ELSE rn.pc = "done" /\ rn.response.status = 200

FinalMap(rn) ==
  IF env.variant = "stream" THEN CompleteEvents(rn)[1].results
  ELSE rn.response.body.results

IsAvailabilityResult(v) ==
  /\ v.status \in {"available", "no-courts"}
  /\ {"courts", "slots"} \subseteq DOMAIN v

IsErrorPlaceholder(v) == v.status = "error" /\ "error" \in DOMAIN v

\* The probe at position k came to an error.
ProbeFailed(rn, k) == "error" \in DOMAIN rn.settled[k]

(***************************************************************************)
(* C1. A valid POST /api/search-courts whose cache lookup finds an entry   *)
(* under the request's key is answered with that entry as a 200 JSON       *)
(* response tagged cached:true; no probe is sent upstream and nothing is   *)
(* written to the cache.                                                   *)
(***************************************************************************)
C1_CacheHitBypassesUpstream ==
  \A r \in Runs :
    LET rn == run[r] IN
    (ValidSearch(rn) /\ CacheHit(rn)) =>
      /\ rn.kvlog[1].key = CacheKey(rn.req.body.unitId, rn.req.body.date)
      /\ rn.pc = "done"
      /\ rn.response.status = 200
      /\ rn.response.kind = "json"
      /\ DOMAIN rn.response.body = DOMAIN rn.kvlog[1].returned \cup {"cached"}
      /\ rn.response.body.cached = TRUE
      /\ \A f \in DOMAIN rn.kvlog[1].returned \ {"cached"} :
           rn.response.body[f] = rn.kvlog[1].returned[f]
      /\ rn.upstream = <<>>
      /\ Puts(rn) = <<>>
      /\ rn.events = <<>>

C1_Witness ==
  \E r \in Runs :
    /\ ValidSearch(run[r]) /\ CacheHit(run[r])
    /\ run[r].response.body.results # EmptyMap
    /\ Len(TimeSlotsOf(run[r])) >= 2

(***************************************************************************)
(* C2 as stated: the final aggregated map of a non-cached run over N       *)
(* requested time slots has exactly N keys, one per requested slot, each   *)
(* an AvailabilityResult or an error placeholder.                          *)
(***************************************************************************)
C2_ExactlyNKeys ==
  \A r \in Runs :
    LET rn == run[r] IN
    HasFinalMap(rn) =>
      /\ Cardinality(DOMAIN FinalMap(rn)) = Len(TimeSlotsOf(rn))
      /\ \A k \in 1..Len(TimeSlotsOf(rn)) :
           /\ TimeSlotsOf(rn)[k] \in DOMAIN FinalMap(rn)
           /\ \/ IsAvailabilityResult(FinalMap(rn)[TimeSlotsOf(rn)[k]])
              \/ IsErrorPlaceholder(FinalMap(rn)[TimeSlotsOf(rn)[k]])

(***************************************************************************)
(* C2 amended: the final aggregated map of a non-cached run has exactly    *)
(* one key per distinct requested time slot (N keys when the N requested   *)
(* slots are pairwise distinct), each mapped to an AvailabilityResult or   *)
(* to an error placeholder; no requested slot is missing.                  *)
(***************************************************************************)
C2_OneKeyPerDistinctSlot ==
  \A r \in Runs :
    LET rn == run[r] IN
    HasFinalMap(rn) =>
      /\ DOMAIN FinalMap(rn) = RequestedSlots(rn)
      /\ \A t \in RequestedSlots(rn) :
           \/ IsAvailabilityResult(FinalMap(rn)[t])
           \/ IsErrorPlaceholder(FinalMap(rn)[t])

C2_Witness ==
  \E r \in Runs :
    /\ HasFinalMap(run[r])
    /\ Cardinality(DOMAIN FinalMap(run[r])) >= 3
    /\ \E t, u \in DOMAIN FinalMap(run[r]) :
         /\ IsAvailabilityResult(FinalMap(run[r])[t])
         /\ IsErrorPlaceholder(FinalMap(run[r])[u])

\* The first position of the group of position k, minus one (the value of
\* the loop variable i while that group is processed).
GroupOffset(k) == ((k - 1) \div BatchSize(env)) * BatchSize(env)

\* The positions of the group of position k.
GroupOf(rn, k) ==
  (GroupOffset(k) + 1)..Min(GroupOffset(k) + BatchSize(env), Len(TimeSlotsOf(rn)))

(***************************************************************************)
(* C3. Streaming handler: a probe that fails (fetch throws, parsing        *)
(* throws, non-2xx answer) is recorded as {status:'error', error: message} *)
(* for its slot only; every other requested slot is still probed and       *)
(* reported, and the run ends with a 'complete' event.                     *)
(***************************************************************************)
C3_ProbeFailureIsPerSlot ==
  \A r \in Runs :
    LET rn == run[r]
        ts == TimeSlotsOf(rn)
        ev == ResultEvents(rn)
    IN  (env.variant = "stream" /\ Orchestrated(rn)) =>
          /\ rn.response = StreamResponse(rn.allowedOrigin)
          /\ \A k \in 1..Len(ev) :
               /\ ev[k].timeSlot = ts[k]
               /\ IF ProbeFailed(rn, k)
                  THEN /\ ev[k].data = [status |-> "error", error |-> rn.settled[k].error]
                       /\ rn.settled[k].error \in
                            {NetworkErrorMessage, URIErrorMessage, "HTTP 500"}
                  ELSE ev[k].data.status # "error"
          /\ rn.pc = "done" =>
               /\ Len(rn.upstream) = Len(ts)
               /\ \A k \in 1..Len(ts) : rn.upstream[k].form.start_hour = ts[k]
               /\ Len(ev) = Len(ts)
               /\ rn.events[Len(rn.events)].type = "complete"

C3_Witness ==
  \E r \in Runs :
    LET rn == run[r] IN
    /\ env.variant = "stream" /\ Orchestrated(rn) /\ rn.pc = "done"
    /\ \E a, b, c, d \in 1..Len(TimeSlotsOf(rn)) :
         /\ ProbeFailed(rn, a) /\ rn.settled[a].error = NetworkErrorMessage
         /\ ProbeFailed(rn, b) /\ rn.settled[b].error = URIErrorMessage
         /\ ProbeFailed(rn, c) /\ rn.settled[c].error = "HTTP 500"
         /\ ~ProbeFailed(rn, d)
         /\ FinalMap(rn)[TimeSlotsOf(rn)[d]].status = "available"

(***************************************************************************)
(* C4. Groups are processed strictly one after the other: when a probe of  *)
(* a group is issued, every probe of every earlier group has settled and   *)
(* its result has been recorded and (streaming handler) emitted.           *)
(***************************************************************************)
C4_GroupsSequential ==
  \A r \in Runs :
    LET rn == run[r]
        ts == TimeSlotsOf(rn)
    IN  Orchestrated(rn) =>
          /\ Len(rn.upstream) = rn.issued
          /\ \A k \in 1..rn.issued :
               \A j \in 1..GroupOffset(k) :
                 /\ j \in DOMAIN rn.settled
                 /\ j <= rn.recorded
                 /\ ts[j] \in DOMAIN rn.results
                 /\ env.variant = "stream" =>
                      /\ Len(ResultEvents(rn)) >= j
                      /\ ResultEvents(rn)[j].timeSlot = ts[j]

C4_Witness ==
  \E r \in Runs :
    /\ Orchestrated(run[r])
    /\ run[r].pc = "group"
    /\ run[r].issued > BatchSize(env)
    /\ run[r].issued \notin DOMAIN run[r].settled

(***************************************************************************)
(* C5. Streaming handler: no 'result' event of a group is emitted before   *)
(* all probes of that group have settled, and the 'result' events follow   *)
(* the order of the request's timeSlots list, whatever the order in which  *)
(* the probes of a group complete.                                         *)
(***************************************************************************)
C5_EmissionFollowsListOrder ==
  \A r \in Runs :
    LET rn == run[r]
        ts == TimeSlotsOf(rn)
        ev == ResultEvents(rn)
    IN  (env.variant = "stream" /\ Orchestrated(rn)) =>
          /\ Len(ev) <= Len(ts)
          /\ \A k \in 1..Len(ev) :
               /\ GroupOf(rn, k) \subseteq DOMAIN rn.settled
               /\ ev[k].timeSlot = ts[k]
               /\ rn.settled[k].timeSlot = ts[k]

C5_Witness ==
  \E r \in Runs :
    LET rn == run[r] IN
    /\ env.variant = "stream" /\ Orchestrated(rn)
    /\ rn.i > 0
    /\ rn.outOfOrder
    /\ Len(ResultEvents(rn)) = rn.i + BatchSize(env)

\* The last position at which the request lists time slot t.
LastPosition(rn, t) ==
  CHOOSE k \in 1..Len(TimeSlotsOf(rn)) :
    /\ TimeSlotsOf(rn)[k] = t
    /\ \A j \in (k + 1)..Len(TimeSlotsOf(rn)) : TimeSlotsOf(rn)[j] # t

\* The stream of a finished streaming run: one 'result' event per requested
\* position, in list order, then the only 'complete' event.
StreamShape(rn) ==
  /\ Len(rn.events) = Len(TimeSlotsOf(rn)) + 1
  /\ \A k \in 1..Len(TimeSlotsOf(rn)) :
       /\ rn.events[k].type = "result"
       /\ rn.events[k].timeSlot = TimeSlotsOf(rn)[k]
       /\ rn.events[k].data = JsonResult(
            IF ProbeFailed(rn, k)
            THEN [status |-> "error", error |-> rn.settled[k].error]
            ELSE rn.settled[k].availability)
  /\ rn.events[Len(rn.events)].type = "complete"
  /\ rn.events[Len(rn.events)].unitId = rn.req.body.unitId
  /\ rn.events[Len(rn.events)].date = rn.req.body.date
  /\ DOMAIN rn.events[Len(rn.events)].results = RequestedSlots(rn)

\* A 'complete' event is the last event written so far, and the results
\* written so far are those of the first positions of the list.
StreamPrefix(rn) ==
  /\ \A n \in 1..(Len(rn.events) - 1) : rn.events[n].type = "result"
  /\ Len(ResultEvents(rn)) <= Len(TimeSlotsOf(rn))
  /\ CompleteEvents(rn) # <<>> => Len(ResultEvents(rn)) = Len(TimeSlotsOf(rn))

(***************************************************************************)
(* C6 as stated: in a streaming run every requested slot's result is       *)
(* emitted as one 'result' event, then exactly one 'complete' event        *)
(* follows, carrying the full aggregated map, which agrees with the        *)
(* 'result' events emitted before it.                                      *)
(***************************************************************************)
C6_CompleteAgreesWithEveryResult ==
  \A r \in Runs :
    LET rn == run[r] IN
    (env.variant = "stream" /\ Orchestrated(rn)) =>
      /\ StreamPrefix(rn)
      /\ rn.pc = "done" =>
           /\ StreamShape(rn)
           /\ \A k \in 1..Len(TimeSlotsOf(rn)) :
                rn.events[Len(rn.events)].results[rn.events[k].timeSlot]
                  = rn.events[k].data

(***************************************************************************)
(* C6 amended: in a streaming run every requested slot's result is emitted *)
(* as one 'result' event per position of the list, then exactly one        *)
(* 'complete' event follows, carrying the full aggregated map, which holds *)
(* for each time slot the data of the last 'result' event emitted for that *)
(* slot (of every 'result' event when no slot is listed twice).            *)
(***************************************************************************)
C6_CompleteAgreesWithLastResult ==
  \A r \in Runs :
    LET rn == run[r] IN
    (env.variant = "stream" /\ Orchestrated(rn)) =>
      /\ StreamPrefix(rn)
      /\ rn.pc = "done" =>
           /\ StreamShape(rn)
           /\ \A t \in RequestedSlots(rn) :
                rn.events[Len(rn.events)].results[t]
                  = rn.events[LastPosition(rn, t)].data

C6_Witness ==
  \E r \in Runs :
    LET rn == run[r] IN
    /\ env.variant = "stream" /\ Orchestrated(rn) /\ rn.pc = "done"
    /\ Len(TimeSlotsOf(rn)) = 3
    /\ Cardinality(RequestedSlots(rn)) = 2
    /\ rn.events[1].data # rn.events[3].data

Credentials == {SessionId, AuthenticityToken}

\* The strings of a stored result.
ResultStrings(v) ==
  {v.status}
    \cup (IF "error" \in DOMAIN v THEN {v.error} ELSE {})
    \cup (IF "suggestedTimes" \in DOMAIN v
          THEN {v.suggestedTimes[n] : n \in 1..Len(v.suggestedTimes)} ELSE {})
    \cup (IF "slots" \in DOMAIN v
          THEN UNION {{v.slots[n].startTime, v.slots[n].endTime} : n \in 1..Len(v.slots)}
          ELSE {})

FreeOfCredentials(key, value) ==
  /\ DOMAIN value = {"unitId", "date", "results", "cached"}
  /\ key = "courts:" \o value.unitId \o ":" \o value.date
  /\ value.unitId \notin Credentials
  /\ value.date \notin Credentials
  /\ \A t \in DOMAIN value.results :
       /\ t \notin Credentials
       /\ DOMAIN value.results[t] \subseteq
            {"status", "courts", "slots", "suggestedTimes", "error"}
       /\ ResultStrings(value.results[t]) \cap Credentials = {}

C8_CacheHoldsNoCredentials ==
  /\ \A key \in DOMAIN kv : FreeOfCredentials(key, kv[key].value)
  /\ \A r \in Runs :
       \A n \in 1..Len(Puts(run[r])) :
         FreeOfCredentials(Puts(run[r])[n].key, Puts(run[r])[n].value)

C8_Witness ==
  \E r \in Runs :
    /\ Puts(run[r]) # <<>>
    /\ Puts(run[r])[1].key \in DOMAIN kv
    /\ kv[Puts(run[r])[1].key].value = Puts(run[r])[1].value
    /\ Cardinality(DOMAIN Puts(run[r])[1].value.results) >= 2
    /\ run[r].req.body.sessionId = SessionId
    /\ run[r].upstream[1].cookie = SessionId

(***************************************************************************)
(* C9. With no cache backend configured (env.COURTS_CACHE absent) every    *)
(* search request behaves as a cache miss: it runs the orchestration and   *)
(* returns results, reads and writes no cache, and does not fail because   *)
(* the backend is missing.                                                 *)
(***************************************************************************)
C9_NoBackendAlwaysMiss ==
  ~env.COURTS_CACHE =>
    /\ kv = EmptyMap
    /\ \A r \in Runs :
         LET rn == run[r] IN
         /\ rn.kvlog = <<>>
         /\ rn.pc # "cache_get"
         /\ ValidSearch(rn) =>
              /\ Orchestrated(rn)
              /\ Len(rn.upstream) = rn.issued
              /\ rn.issued > 0 \/ Len(TimeSlotsOf(rn)) = 0
              /\ rn.pc = "done" =>
                   IF env.variant = "stream"
                   THEN /\ rn.response.status = 200
                        /\ CompleteEvents(rn) # <<>>
                        /\ DOMAIN FinalMap(rn) = RequestedSlots(rn)
                   ELSE \/ /\ rn.response.status = 200
                           /\ rn.response.body.cached = FALSE
                           /\ DOMAIN FinalMap(rn) = RequestedSlots(rn)
                        \/ /\ rn.response.status = 500
                           /\ \E k \in 1..rn.issued : k \notin DOMAIN rn.settled

C9_Witness ==
  \E r \in Runs :
    /\ ~env.COURTS_CACHE
    /\ ValidSearch(run[r]) /\ run[r].pc = "done"
    /\ run[r].response.status = 200
    /\ Len(TimeSlotsOf(run[r])) >= 3
    /\ Cardinality(DOMAIN FinalMap(run[r])) >= 3

(***************************************************************************)
(* C10. A non-OPTIONS request is rejected by the origin check (403         *)
(* 'Forbidden', before any cache access or upstream request) if and only   *)
(* if it carries an Origin header whose value is not in the configured     *)
(* allow-set; a request without an Origin header goes on to dispatch.      *)
(* (A later 403 of the dispatch, 'Forbidden: Path not allowed', is not the *)
(* origin check's.)                                                        *)
(***************************************************************************)
\* The configured allow-set of the deployed generation.
ConfiguredAllowSet ==
  IF env.variant = "stream"
  THEN (IF env.ALLOWED_ORIGIN = Undefined THEN {} ELSE {env.ALLOWED_ORIGIN})
         \cup {DefaultOrigin}
  ELSE IF env.ALLOWED_ORIGIN = Undefined THEN {DefaultOrigin}
       ELSE {env.ALLOWED_ORIGIN}

RejectedByOriginCheck(rn) ==
  /\ rn.pc = "done"
  /\ rn.response.status = 403
  /\ rn.response.kind = "text"
  /\ rn.response.body = "Forbidden"

\* The request went on to dispatch: a handler is running, or the response
\* is one of a dispatch branch.
Dispatched(rn) ==
  \/ rn.pc \in {"json", "cache_get", "group", "gathered", "delay", "cache", "proxy"}
  \/ rn.pc = "done" /\ ~RejectedByOriginCheck(rn)

FivePaths ==
  {"/self_services/login", "/self_services/login.js",
   "/self_services/court_invitation", "/self_services/set_time_by_unit",
   "/self_services/search_court.js"}

\* A received non-OPTIONS request with an accepted origin that is not a POST
\* to the search route.
ProxyCandidate(rn) ==
  /\ rn.pc # "idle"
  /\ rn.req.method # "OPTIONS"
  /\ rn.req.origin = Undefined \/ rn.req.origin \in ConfiguredAllowSet
  /\ ~(rn.req.method = "POST" /\ rn.req.path = SearchRoute)

\* Every upstream request of every invocation goes to an allow-listed path.
UpstreamPathsAllowed ==
  \A r \in Runs :
    \A n \in 1..Len(run[r].upstream) : run[r].upstream[n].path \in FivePaths

(***************************************************************************)
(* C11 as stated: for a non-OPTIONS request with an accepted origin that   *)
(* is not a POST to the search route, a remaining path outside the five    *)
(* allow-listed paths is answered 403 with no upstream request; no         *)
(* upstream request ever goes to a path outside the allow-list.            *)
(***************************************************************************)
C11_OtherPathIs403 ==
  /\ UpstreamPathsAllowed
  /\ \A r \in Runs :
       LET rn == run[r] IN
       (ProxyCandidate(rn) /\ StripProxyPrefix(rn.req.path) \notin FivePaths) =>
         /\ rn.pc = "done"
         /\ rn.response.status = 403
         /\ rn.upstream = <<>>

(***************************************************************************)
(* C11 amended: for such a request, an empty remaining path (the request   *)
(* names the routing prefix only) is answered 400, any other remaining     *)
(* path outside the five allow-listed paths is answered 403, in both cases *)
(* with no upstream request; no upstream request ever goes to a path       *)
(* outside the allow-list.                                                 *)
(***************************************************************************)
C11_OtherPathIsRefused ==
  /\ UpstreamPathsAllowed
  /\ \A r \in Runs :
       LET rn == run[r] IN
       (ProxyCandidate(rn) /\ StripProxyPrefix(rn.req.path) \notin FivePaths) =>
         /\ rn.pc = "done"
         /\ rn.response.kind = "text"
         /\ rn.upstream = <<>>
         /\ rn.kvlog = <<>>
         /\ IF StripProxyPrefix(rn.req.path) = ""
            THEN /\ rn.response.status = 400
                 /\ rn.response.body = "Bad Request: Missing path"
            ELSE /\ rn.response.status = 403
                 /\ rn.response.body = "Forbidden: Path not allowed"

C11_Witness ==
  \E r \in Runs :
    /\ ProxyCandidate(run[r])
    /\ run[r].req.path = "/proxy/admin/users"
    /\ run[r].req.origin = DefaultOrigin
    /\ run[r].req.sessionCookie = SessionId
    /\ run[r].response.status = 403
    /\ run[r].upstream = <<>>

(***************************************************************************)
(* C12. Every OPTIONS request, whatever its path and Origin header, is     *)
(* answered 204 without a body, carrying the allowed origin, the accepted  *)
(* methods, the accepted headers and a preflight cache lifetime, with no   *)
(* origin check, cache access, body parsing or upstream request.           *)
(* Violated: the proxy-only generation advertises a fixed origin, which is *)
(* not the allowed origin once env.ALLOWED_ORIGIN is configured.           *)
(***************************************************************************)
C12_PreflightShortCircuit ==
  \A r \in Runs :
    LET rn == run[r] IN
    (rn.pc # "idle" /\ rn.req.method = "OPTIONS") =>
      /\ rn.pc = "done"
      /\ rn.response.status = 204
      /\ rn.response.kind = "none"
      /\ rn.response.body = Undefined
      /\ DOMAIN rn.response.headers =
           {"Access-Control-Allow-Origin", "Access-Control-Allow-Methods",
            "Access-Control-Allow-Headers", "Access-Control-Max-Age"}
      /\ rn.response.headers["Access-Control-Allow-Origin"] \in ConfiguredAllowSet
      /\ rn.response.headers["Access-Control-Allow-Methods"]
           = "GET, POST, PUT, DELETE, OPTIONS"
      /\ rn.response.headers["Access-Control-Max-Age"] = "86400"
      /\ rn.upstream = <<>>
      /\ rn.kvlog = <<>>
      /\ rn.issued = 0

(***************************************************************************)
(* C13. A POST to the search route whose JSON body lacks one of unitId,    *)
(* date, timeSlots, sessionId, authenticityToken is answered 400 with an   *)
(* error body naming the required parameters, before any cache lookup and  *)
(* any upstream probe.                                                     *)
(* Violated: the JSON body null lacks all of them and is answered 500.     *)
(***************************************************************************)
\* The request reached the search handler and its body is JSON text.
SearchWithJsonBody(rn) ==
  /\ rn.pc \notin {"idle", "json"}
  /\ IsSearchDispatch(env, rn.req)
  /\ rn.allowedOrigin # Undefined
  /\ rn.req.body # BadJson

LacksAParameter(body) == \E f \in BodyFields : f \notin DOMAIN body

C13_MissingParameterIs400 ==
  \A r \in Runs :
    LET rn == run[r] IN
    (SearchWithJsonBody(rn) /\ LacksAParameter(rn.req.body)) =>
      /\ rn.pc = "done"
      /\ rn.response.status = 400
      /\ rn.response.kind = "json"
      /\ rn.response.body =
           [error |-> "Missing required parameters: unitId, date, timeSlots, sessionId, authenticityToken"]
      /\ rn.upstream = <<>>
      /\ rn.kvlog = <<>>

(***************************************************************************)
(* C14. Every response the worker produces (preflight, origin or path      *)
(* rejection, bad request, proxy success, proxy error, search JSON, search *)
(* stream) carries Access-Control-Allow-Origin set to the negotiated       *)
(* allowed origin.                                                         *)
(* Violated: the plain-text responses (403, 400, proxy error 500) carry no *)
(* header at all.                                                          *)
(***************************************************************************)
C14_EveryResponseCarriesAllowOrigin ==
  \A r \in Runs :
    LET rn == run[r] IN
    rn.response # NoResponse =>
      /\ "Access-Control-Allow-Origin" \in DOMAIN rn.response.headers
      /\ rn.allowedOrigin # Undefined =>
           rn.response.headers["Access-Control-Allow-Origin"] = rn.allowedOrigin

(***************************************************************************)
(* C15. For every proxied request: the response to the client carries no   *)
(* Set-Cookie header, and carries X-Session-Cookie: _session_id=<v>        *)
(* exactly when the upstream response set the cookie _session_id=<v>; the  *)
(* outbound request carries the client's X-Session-Cookie value as its     *)
(* Cookie header and none of Origin, Host, X-Session-Cookie.               *)
(* Violated: the session is cut out of the joined Set-Cookie headers by an *)
(* unanchored pattern that runs to the next ';'.                           *)
(***************************************************************************)
\* The values of the cookies named _session_id in the upstream reply.
SessionValuesSet(reply) ==
  {reply.cookies[n].value :
     n \in {m \in 1..Len(reply.cookies) : reply.cookies[m].name = SessionCookieName}}

\* The proxied request was answered by the upstream site.
Proxied(rn) == rn.pc = "done" /\ rn.proxied # Undef

C15_SessionCookieRemap ==
  \A r \in Runs :
    LET rn == run[r] IN
    /\ rn.pc = "proxy" \/ Proxied(rn) =>
         /\ Len(rn.upstream) = 1
         /\ DOMAIN rn.upstream[1].headers \cap {"origin", "host", "x-session-cookie"} = {}
         /\ IF rn.req.sessionCookie = Undefined
            THEN "cookie" \notin DOMAIN rn.upstream[1].headers
            ELSE /\ "cookie" \in DOMAIN rn.upstream[1].headers
                 /\ rn.upstream[1].headers["cookie"] = rn.req.sessionCookie
    /\ Proxied(rn) =>
         /\ DOMAIN rn.response.headers \cap {"set-cookie", "Set-Cookie"} = {}
         /\ "X-Session-Cookie" \in DOMAIN rn.response.headers
              <=> SessionValuesSet(rn.proxied[1]) # {}
         /\ "X-Session-Cookie" \in DOMAIN rn.response.headers =>
              \E v \in SessionValuesSet(rn.proxied[1]) :
                rn.response.headers["X-Session-Cookie"] = SessionIdEq \o v

(***************************************************************************)
(* The page calls parseCourtAvailability on a response text.               *)

\* The handler of POST /api/search-courts ran for the invocation.
SearchHandled(rn) ==
  /\ rn.pc \notin {"idle", "json"}
  /\ IsSearchDispatch(env, rn.req)
  /\ rn.allowedOrigin # Undefined

\* An exception was raised before the handler produced its response: the
\* body was not JSON or was null, or the cache read was rejected.
RaisedInSetup(rn) == rn.req.body \in {BadJson, JsonNull} \/ CacheReadFailed(rn)

\* A 500 answer with a JSON body { error: message }.
IsJsonError(response) ==
  /\ response.status = 500
  /\ response.kind = "json"
  /\ DOMAIN response.body = {"error"}
  /\ response.headers["Content-Type"] = "application/json"

(***************************************************************************)
(* C26. Any exception raised while handling POST /api/search-courts before *)
(* the response is produced (unparsable JSON body, failing cache read) is  *)
(* caught and answered with status 500 and a JSON body {error: message};   *)
(* no exception propagates out of the handler.                             *)
(***************************************************************************)
C26_SetupExceptionIs500 ==
  \A r \in Runs :
    LET rn == run[r] IN
    SearchHandled(rn) =>
      /\ rn.pc # "thrown"
      /\ RaisedInSetup(rn) =>
           /\ rn.pc = "done"
           /\ IsJsonError(rn.response)
           /\ rn.upstream = <<>>
           /\ \A n \in 1..Len(rn.kvlog) : rn.kvlog[n].op # "put"
      /\ (rn.pc = "done" /\ rn.response.kind # "stream"
            /\ rn.response.status \notin {200, 400}) => IsJsonError(rn.response)

C26_Witness ==
  \E r \in Runs :
    /\ SearchHandled(run[r])
    /\ CacheReadFailed(run[r])
    /\ run[r].req.body \in ValidBodies
    /\ CacheKey(run[r].req.body.unitId, run[r].req.body.date) \in DOMAIN kv
    /\ run[r].response.status = 500


(***************************************************************************)
(* C27. The worker only accepts requests from the GitHub Pages origin: no  *)
(* request reaches the upstream site or the cache unless it carries an     *)
(* Origin header equal to an allowed origin.                               *)
(***************************************************************************)
C27_OnlyAllowedOriginsReachUpstream ==
  \A r \in Runs :
    (run[r].upstream # <<>> \/ run[r].kvlog # <<>>) =>
      /\ run[r].req.origin # Undefined
      /\ run[r].req.origin \in ConfiguredAllowSet

(***************************************************************************)
\* Most court rows in one response text.
MaxRows == 2

\* The worker is not involved in a call that stays in the page.
WorkerIdle ==
  /\ env = [variant |-> "stream", COURTS_CACHE |-> FALSE,
            ALLOWED_ORIGIN |-> Undefined, TARGET_BASE_URL |-> Undefined]
  /\ kv = EmptyMap
  /\ active = {}
  /\ run = [r \in Runs |-> IdleRun]

\* Court rows as rowRegex captures them: courts 3, 10 and 2, and a row whose
\* start_time carries a truncated escape.
CourtRows ==
  {[courtNumber |-> c, court_id |-> "101", duration |-> "1.0",
    end_time |-> "09%3A00", start_time |-> "08%3A00"] : c \in {"3", "10", "2"}}
    \cup {[courtNumber |-> "3", court_id |-> "101", duration |-> "1.0",
           end_time |-> "09%3A00", start_time |-> "%E0%A4%A"]}

RowLists == UNION {[1..n -> CourtRows] : n \in 0..MaxRows}

HeadingLists == {<<>>, <<"10:00">>, <<"10:00", "11:00", "10:00">>}

\* The response texts the parser is called on.
ParserInputs ==
  [wrapped : BOOLEAN, success : BOOLEAN,
   markers : SUBSET {"otherTimes", "alert-danger", "tryOtherTime"},
   rows : RowLists, headings : HeadingLists]

InitParser ==
  /\ WorkerIdle
  /\ client \in {[pc |-> "parse", raw |-> x] : x \in ParserInputs}

\* parseCourtAvailability(response) returns or throws.
CallParseCourtAvailability ==
  /\ client.pc = "parse"
  /\ client' =
       IF ParseCourtAvailabilityThrows(client.raw)
       THEN [pc |-> "thrown", raw |-> client.raw, error |-> URIErrorMessage]
       ELSE [pc |-> "returned", raw |-> client.raw,
             result |-> ParseCourtAvailability(client.raw)]
  /\ UNCHANGED <<env, kv, active, run>>

NextParser == CallParseCourtAvailability

SpecParser == InitParser /\ [][NextParser]_vars

\* The result for input the parser cannot read.
Degraded == [status |-> "no-courts", courts |-> <<>>, slots |-> <<>>]

(***************************************************************************)
(* C16. parseCourtAvailability returns a result for every input string and *)
(* never throws: malformed input (missing wrapper, broken markup,          *)
(* malformed escapes in a court link) degrades to                          *)
(* {status:'no-courts', courts:[], slots:[]}.                              *)
(* Violated: a malformed escape in a court link raises URIError.           *)
(***************************************************************************)
C16_ParserNeverThrows ==
  /\ client.pc # "thrown"
  /\ client.pc = "returned" =>
       (~client.raw.wrapped => client.result = Degraded)

(***************************************************************************)
(* C17. For every result of parseCourtAvailability with status             *)
(* 'available', courts is the de-duplicated set of slots[i].courtNumber,   *)
(* in ascending numerical (not lexical) order.                             *)
(***************************************************************************)
C17_CourtsSortedNumerically ==
  (client.pc = "returned" /\ client.result.status = "available") =>
    LET courts == client.result.courts
        slots  == client.result.slots
    IN  /\ {courts[n] : n \in 1..Len(courts)}
             = {slots[n].courtNumber : n \in 1..Len(slots)}
        /\ \A n \in 1..(Len(courts) - 1) : courts[n] < courts[n + 1]

C17_Witness ==
  /\ client.pc = "returned"
  /\ client.result.status = "available"
  /\ client.result.courts = <<2, 10>>
  /\ client.result.slots[1].courtNumber = 10

(***************************************************************************)
(* C18 as stated: unwrapped HTML that contains the success marker together *)
(* with one or more failure markers is classified 'available'.             *)
(***************************************************************************)
SuccessAndFailure(raw) == raw.wrapped /\ raw.success /\ raw.markers # {}

MaxList == 3

DecimalDigit == <<"0", "1", "2", "3", "4", "5", "6", "7", "8", "9">>

DigitValue(c) == CHOOSE d \in 0..9 : DecimalDigit[d + 1] = c

\* String.prototype.endsWith
EndsWith(str, suffix) ==
  /\ Len(str) >= Len(suffix)
  /\ SubSeq(str, Len(str) - Len(suffix) + 1, Len(str)) = suffix

\* slot.split(':')[0]
BeforeColon(str) ==
  LET colons == {n \in 1..Len(str) : str[n] = ":"}
  IN  IF colons = {} THEN str
      ELSE SubSeq(str, 1, (CHOOSE n \in colons : \A m \in colons : n <= m) - 1)

\* parseInt(hours) of a string of decimal digits
RECURSIVE ParseDigits(_)
ParseDigits(str) ==
  IF str = <<>> THEN 0
  ELSE 10 * ParseDigits(SubSeq(str, 1, Len(str) - 1)) + DigitValue(str[Len(str)])

\* String(n)
RECURSIVE StringOf(_)
StringOf(n) ==
  IF n < 10 THEN <<DecimalDigit[n + 1]>>
  ELSE StringOf(n \div 10) \o <<DecimalDigit[(n % 10) + 1]>>

\* str.padStart(2, '0')
PadStart2(str) ==
  IF Len(str) >= 2 THEN str
  ELSE IF Len(str) = 1 THEN <<"0">> \o str
  ELSE <<"0", "0">>

\* Mutant: the hour is not advanced.
NextHour_SameHour(slot) == BeforeColon(slot) \o <<":", "0", "0">>

\* String(parseInt(hours) + 1).padStart(2, '0') + ':00'
NextHour(slot) ==
  PadStart2(StringOf(ParseDigits(BeforeColon(slot)) + 1)) \o <<":", "0", "0">>

\* The loop of parseTimeSlots over allSlots: other minutes are dropped.
FilterParsedSlots(allSlots) ==
  LET Keep(slot) ==
        IF EndsWith(slot, <<":", "0", "0">>) THEN TRUE
        ELSE IF EndsWith(slot, <<":", "3", "0">>)
             THEN ~Includes(allSlots, NextHour(slot))
             ELSE FALSE
  IN  SelectSeq(allSlots, Keep)

\* The filter of generateTimeSlotsForDate: other minutes are kept.
FilterGeneratedSlots(slotsToInclude) ==
  LET Keep(slot) ==
        IF EndsWith(slot, <<":", "0", "0">>) THEN TRUE
        ELSE IF EndsWith(slot, <<":", "3", "0">>)
             THEN ~Includes(slotsToInclude, NextHour(slot))
             ELSE TRUE
  IN  SelectSeq(slotsToInclude, Keep)

\* validSlots.filter(slot => parseInt(slot.split(":")[0]) > currentHour)
LaterToday(validSlots, currentHour) ==
  LET Later(slot) == ParseDigits(BeforeColon(slot)) > currentHour
  IN  SelectSeq(validSlots, Later)

Time(h1, h2, m1, m2) == <<h1, h2, ":", m1, m2>>

\* The times the modelled responses offer.
SlotUniverse ==
  {Time("0", "8", "0", "0"), Time("0", "8", "3", "0"), Time("0", "8", "1", "5"),
   Time("0", "9", "0", "0"), Time("0", "9", "3", "0"), Time("1", "0", "0", "0"),
   Time("2", "3", "3", "0")}

\* The times matched in a response, in text order, repetitions included.
SlotLists == UNION {[1..n -> SlotUniverse] : n \in 0..MaxList}

InitSlots ==
  /\ WorkerIdle
  /\ client \in {[pc |-> "slots", matches |-> l] : l \in SlotLists}

\* parseTimeSlots(responseText): matches are de-duplicated, then filtered.
CallParseTimeSlots ==
  /\ client.pc = "slots"
  /\ LET allSlots == Dedupe(client.matches, <<>>)
     IN  client' = [pc |-> "parsed", matches |-> client.matches,
                    allSlots |-> allSlots,
                    filteredSlots |-> FilterParsedSlots(allSlots)]
  /\ UNCHANGED <<env, kv, active, run>>

\* generateTimeSlotsForDate(date, availableTimeSlots): on the day itself the
\* hours up to the current one are left out first.
CallGenerateTimeSlotsForDate ==
  \E isToday \in BOOLEAN, currentHour \in {8, 9} :
    /\ client.pc = "slots"
    /\ isToday \/ currentHour = 8
    /\ LET slotsToInclude == IF isToday THEN LaterToday(client.matches, currentHour)
                             ELSE client.matches
       IN  client' = [pc |-> "generated", matches |-> client.matches,
                      isToday |-> isToday, currentHour |-> currentHour,
                      allSlots |-> slotsToInclude,
                      filteredSlots |-> FilterGeneratedSlots(slotsToInclude)]
    /\ UNCHANGED <<env, kv, active, run>>

NextSlots == CallParseTimeSlots \/ CallGenerateTimeSlotsForDate

SpecSlots == InitSlots /\ [][NextSlots]_vars

\* The hour and the minute a time names.
HourOf(slot) == 10 * DigitValue(slot[1]) + DigitValue(slot[2])
MinuteOf(slot) == 10 * DigitValue(slot[4]) + DigitValue(slot[5])

\* Half-hour suppression as the claim states it.
SurvivesSuppression(list, slot) ==
  \/ MinuteOf(slot) = 0
  \/ /\ MinuteOf(slot) = 30
     /\ \A n \in 1..Len(list) :
          ~(HourOf(list[n]) = HourOf(slot) + 1 /\ MinuteOf(list[n]) = 0)

\* The ':00' and ':30' times of a list, in order.
WholeAndHalfHours(list) ==
  LET OnTheHalf(slot) == MinuteOf(slot) \in {0, 30}
  IN  SelectSeq(list, OnTheHalf)

(***************************************************************************)
(* C19. Half-hour suppression: the filter keeps every ':00' slot and keeps *)
(* a ':30' slot exactly when the ':00' slot of the following hour is not   *)
(* in the list, preserving order; [08:00, 08:30, 09:00] gives              *)
(* [08:00, 09:00] and [08:00, 08:30] gives [08:00, 08:30].                 *)
(***************************************************************************)
C19_HalfHourSuppression ==
  client.pc \in {"parsed", "generated"} =>
    LET list == client.allSlots
        Survives(slot) == SurvivesSuppression(list, slot)
    IN  /\ WholeAndHalfHours(client.filteredSlots)
             = SelectSeq(WholeAndHalfHours(list), Survives)
        /\ list = <<Time("0", "8", "0", "0"), Time("0", "8", "3", "0"),
                    Time("0", "9", "0", "0")>>
             => client.filteredSlots
                  = <<Time("0", "8", "0", "0"), Time("0", "9", "0", "0")>>
        /\ list = <<Time("0", "8", "0", "0"), Time("0", "8", "3", "0")>>
             => client.filteredSlots = list

C19_Witness ==
  /\ client.pc = "parsed"
  /\ client.allSlots = <<Time("0", "8", "3", "0"), Time("0", "9", "3", "0"),
                         Time("0", "9", "0", "0")>>
  /\ client.filteredSlots = <<Time("0", "9", "3", "0"), Time("0", "9", "0", "0")>>

(***************************************************************************)
(* The page signs in: AuthService.login. Pages and scripts the code looks  *)
(* into are sequences of characters; null is Undef.                        *)
(***************************************************************************)
WORKER_URL == "https://itec-cors-proxy.adiel-bm5.workers.dev"

\* name="authenticity_token"
NameAttribute ==
  <<"n", "a", "m", "e", "=", "\"", "a", "u", "t", "h", "e", "n", "t", "i",
    "c", "i", "t", "y", "_", "t", "o", "k", "e", "n", "\"">>

\* value="
ValueOpen ==
  <<"v", "a", "l", "u", "e", "=", "\"">>

\* window.location.href
LocationHref ==
  <<"w", "i", "n", "d", "o", "w", ".", "l", "o", "c", "a", "t", "i", "o",
    "n", ".", "h", "r", "e", "f">>

\* /login
SlashLogin ==
  <<"/", "l", "o", "g", "i", "n">>

\* browser-managed
BrowserManaged ==
  <<"b", "r", "o", "w", "s", "e", "r", "-", "m", "a", "n", "a", "g", "e",
    "d">>

\* String.prototype.includes
IncludesText(str, pat) == \E i \in 1..Len(str) : MatchesAt(str, pat, i)

\* \s
IsWhitespace(c) == c \in {" ", "\n", "\t"}

\* The length of the run of white space that starts at index i.
WhitespaceRun(str, i) ==
  LET stops == {n \in i..Len(str) : ~IsWhitespace(str[n])}
  IN  IF stops = {} THEN Len(str) - i + 1
      ELSE (CHOOSE n \in stops : \A m \in stops : n <= m) - i

\* The longest run of characters other than '"' that starts at index i.
RunUpToQuote(str, i) ==
  LET stops == {n \in i..Len(str) : str[n] = "\""}
      end   == IF stops = {} THEN Len(str)
               ELSE (CHOOSE n \in stops : \A m \in stops : n <= m) - 1
  IN  SubSeq(str, i, end)

\* Where the value starts when /name="authenticity_token"\s+value="([^"]+)"/
\* matches at index i, and 0 when it does not.
TokenValueStart(html, i) ==
  LET afterName  == i + Len(NameAttribute)
      afterSpace == afterName + WhitespaceRun(html, afterName)
      valueStart == afterSpace + Len(ValueOpen)
      value      == RunUpToQuote(html, valueStart)
  IN  IF /\ MatchesAt(html, NameAttribute, i)
         /\ afterSpace > afterName
         /\ MatchesAt(html, ValueOpen, afterSpace)
         /\ Len(value) > 0
         /\ valueStart + Len(value) <= Len(html)
      THEN valueStart ELSE 0

\* extractAuthenticityToken(html)
ExtractAuthenticityToken(html) ==
  LET starts == {i \in 1..Len(html) : TokenValueStart(html, i) > 0}
  IN  IF starts = {} THEN Undef
      ELSE Defined(RunUpToQuote(html,
             TokenValueStart(html, CHOOSE i \in starts : \A j \in starts : i <= j)))

\* !value for null or a string
Falsy(value) == value = Undef \/ value[1] = <<>>

\* Mutant: a login response without the session header is accepted.
MissingSessionCookie_Ignored(sessionCookie) == FALSE

\* if (!sessionCookie)
MissingSessionCookie(sessionCookie) == Falsy(sessionCookie)

\* The tokens and the sessions upstream hands out.
TokenValues == {<<"t", "1">>, <<"t", "2">>}
SessionValues == {SessionIdEq \o <<"s", "1">>, SessionIdEq \o <<"s", "2">>}

\* <input name="authenticity_token" value="...">, with the white space given.
TokenInput(space, token) ==
  <<"<", "i", "n", "p", "u", "t", " ">> \o NameAttribute \o space
    \o ValueOpen \o token \o <<"\"", ">">>

\* <p>closed</p>
ClosedPage ==
  <<"<", "p", ">", "c", "l", "o", "s", "e", "d", "<", "/", "p", ">">>

\* window.location.href='/self_services/court_invitation'
RedirectToCourts ==
  <<"w", "i", "n", "d", "o", "w", ".", "l", "o", "c", "a", "t", "i", "o",
    "n", ".", "h", "r", "e", "f", "=", "'", "/", "s", "e", "l", "f", "_",
    "s", "e", "r", "v", "i", "c", "e", "s", "/", "c", "o", "u", "r", "t",
    "_", "i", "n", "v", "i", "t", "a", "t", "i", "o", "n", "'">>

\* window.location.href='/self_services/login'
RedirectToLogin ==
  <<"w", "i", "n", "d", "o", "w", ".", "l", "o", "c", "a", "t", "i", "o",
    "n", ".", "h", "r", "e", "f", "=", "'", "/", "s", "e", "l", "f", "_",
    "s", "e", "r", "v", "i", "c", "e", "s", "/", "l", "o", "g", "i", "n",
    "'">>

\* alert('no such member')
LoginRefused ==
  <<"a", "l", "e", "r", "t", "(", "'", "n", "o", " ", "s", "u", "c", "h",
    " ", "m", "e", "m", "b", "e", "r", "'", ")">>

\* What the worker can answer to the three requests of a login; a fetch or
\* a body read can also reject.
LoginPages ==
  {TokenInput(<<" ">>, <<"t", "1">>), TokenInput(<<"\n", " ">>, <<"t", "2">>),
   TokenInput(<<" ">>, <<>>), ClosedPage}

LoginPageReplies ==
  {[throws |-> TRUE]} \cup {[throws |-> FALSE, html |-> h] : h \in LoginPages}

LoginPostReplies ==
  {[throws |-> TRUE]}
    \cup {[throws |-> FALSE, ok |-> ok, text |-> t, sessionCookie |-> c] :
            ok \in BOOLEAN, t \in {RedirectToCourts, LoginRefused},
            c \in {Undef} \cup {Defined(v) : v \in SessionValues}}

VerifyPages ==
  {TokenInput(<<" ">>, <<"t", "2">>), RedirectToLogin, ClosedPage}

VerifyReplies ==
  {[throws |-> TRUE]}
    \cup {[throws |-> FALSE, ok |-> ok, html |-> h] :
            ok \in BOOLEAN, h \in VerifyPages}

LoginCredentials == {[email |-> "member@example.org", userId |-> "123456782"]}

\* new AuthService(): nothing in memory, nothing stored.
NewAuthService ==
  [pc |-> "idle", sessionId |-> Undef, authenticityToken |-> Undef,
   storage |-> [sessionId |-> Undef, authenticityToken |-> Undef],
   credentials |-> Undef, requests |-> <<>>,
   loginPage |-> Undef, loginResponse |-> Undef, verification |-> Undef,
   error |-> Undef]

InitLogin == WorkerIdle /\ client = NewAuthService

\* login(email, userId) up to its first await, on the service au: the login
\* page is requested, with the session of an earlier login when there is one.
BeginLogin(au, c) ==
  LET headers == IF ~Falsy(au.sessionId)
                    /\ au.sessionId # Defined(BrowserManaged)
                 THEN [h \in {"X-Session-Cookie"} |-> au.sessionId]
                 ELSE [h \in {} |-> Undef]
  IN  [au EXCEPT !.pc = "login_page", !.credentials = Defined(c),
         !.requests = <<[method |-> "GET",
                         url |-> <<WORKER_URL, "/proxy/self_services/login">>,
                         headers |-> headers]>>,
         !.loginPage = Undef, !.loginResponse = Undef,
         !.verification = Undef, !.error = Undef]

\* The login page arrives, or its fetch rejects: without a token login
\* throws, with one it posts the credentials.
OnLoginPage(au, reply) ==
  LET authenticityToken ==
        IF reply.throws THEN Undef ELSE ExtractAuthenticityToken(reply.html)
  IN  IF Falsy(authenticityToken)
      THEN [au EXCEPT !.pc = "thrown",
              !.loginPage = Defined(reply),
              !.error = Defined("Failed to get authenticity token")]
      ELSE [au EXCEPT !.pc = "login_post",
              !.loginPage = Defined(reply),
              !.requests = Append(@,
                 [method |-> "POST",
                  url |-> <<WORKER_URL, "/proxy/self_services/login.js">>,
                  headers |-> [h \in {"Content-Type"} |->
                                 "application/x-www-form-urlencoded"],
                  body |-> [authenticity_token |-> authenticityToken[1],
                            login |-> au.credentials[1].email,
                            p_id |-> au.credentials[1].userId]])]

\* The answer to the credentials arrives, or the fetch rejects: login throws
\* on a refusal and on a missing session header, else it keeps the session
\* and requests the court invitation page with it.
OnLoginResponse(au, reply) ==
  IF reply.throws
  THEN [au EXCEPT !.pc = "thrown",
          !.loginResponse = Defined(reply),
          !.error = Defined("fetch failed")]
  ELSE IF ~IncludesText(reply.text, LocationHref) /\ ~reply.ok
  THEN [au EXCEPT !.pc = "thrown",
          !.loginResponse = Defined(reply),
          !.error = Defined("Login failed - invalid credentials")]
  ELSE IF MissingSessionCookie(reply.sessionCookie)
  THEN [au EXCEPT !.pc = "thrown",
          !.loginResponse = Defined(reply),
          !.error = Defined("Failed to get session cookie from login response")]
  ELSE [au EXCEPT !.pc = "verify",
          !.loginResponse = Defined(reply),
          !.sessionId = reply.sessionCookie,
          !.requests = Append(@,
             [method |-> "GET",
              url |-> <<WORKER_URL, "/proxy/self_services/court_invitation">>,
              headers |-> [h \in {"X-Session-Cookie"} |->
                             reply.sessionCookie]])]

\* localStorage.setItem(key, value) stores String(value): null is kept as
\* the text "null".
SetItem(value) ==
  IF value = Undef THEN Defined(<<"n", "u", "l", "l">>) ELSE value

\* The court invitation page arrives, or the fetch rejects: login throws
\* unless the page is served with a token, which it keeps and stores
\* together with the session the service holds at that moment.
OnVerification(au, reply) ==
  IF reply.throws
  THEN [au EXCEPT !.pc = "thrown",
          !.verification = Defined(reply),
          !.error = Defined("fetch failed")]
  ELSE IF ~reply.ok
  THEN [au EXCEPT !.pc = "thrown",
          !.verification = Defined(reply),
          !.error = Defined("Failed to verify authentication")]
  ELSE IF IncludesText(reply.html, LocationHref)
            /\ IncludesText(reply.html, SlashLogin)
  THEN [au EXCEPT !.pc = "thrown",
          !.verification = Defined(reply),
          !.error = Defined("Authentication verification failed")]
  ELSE LET newAuthenticityToken == ExtractAuthenticityToken(reply.html)
       IN  IF Falsy(newAuthenticityToken)
           THEN [au EXCEPT !.pc = "thrown",
                   !.verification = Defined(reply),
                   !.error = Defined("Failed to get authenticity token after login")]
           ELSE [au EXCEPT !.pc = "returned",
                   !.verification = Defined(reply),
                   !.authenticityToken = newAuthenticityToken,
                   !.storage = [sessionId |-> SetItem(au.sessionId),
                                authenticityToken |-> SetItem(newAuthenticityToken)]]

LoginStart ==
  \E c \in LoginCredentials :
    /\ client.pc \in {"idle", "returned", "thrown"}
    /\ client' = BeginLogin(client, c)
    /\ UNCHANGED <<env, kv, active, run>>

LoginPageReply ==
  \E reply \in LoginPageReplies :
    /\ client.pc = "login_page"
    /\ client' = OnLoginPage(client, reply)
    /\ UNCHANGED <<env, kv, active, run>>

LoginPostReply ==
  \E reply \in LoginPostReplies :
    /\ client.pc = "login_post"
    /\ client' = OnLoginResponse(client, reply)
    /\ UNCHANGED <<env, kv, active, run>>

VerifyReply ==
  \E reply \in VerifyReplies :
    /\ client.pc = "verify"
    /\ client' = OnVerification(client, reply)
    /\ UNCHANGED <<env, kv, active, run>>

NextLogin == LoginStart \/ LoginPageReply \/ LoginPostReply \/ VerifyReply

SpecLogin == InitLogin /\ [][NextLogin]_vars

\* The three steps of a login, by method and path.
LoginSteps ==
  <<<<"GET", "/proxy/self_services/login">>,
    <<"POST", "/proxy/self_services/login.js">>,
    <<"GET", "/proxy/self_services/court_invitation">>>>

\* What login has requested so far, by method and path.
StepsIssued ==
  [n \in 1..Len(client.requests) |->
     <<client.requests[n].method, client.requests[n].url[2]>>]

\* No input of the page carries a token.
TokenAbsent(reply) ==
  reply.throws
    \/ \A t \in TokenValues, space \in {<<" ">>, <<"\n", " ">>} :
         ~IncludesText(reply.html, NameAttribute \o space \o ValueOpen \o t \o <<"\"">>)

(***************************************************************************)
(* C20. login performs its steps strictly in order (GET the login page,    *)
(* POST the credentials, GET the verification page) and fails with an      *)
(* error, without issuing any later step, when the CSRF token is absent    *)
(* from the login page or the session identifier is absent from the login  *)
(* response.                                                               *)
(***************************************************************************)
C20_LoginStepsInOrder ==
  client.pc # "idle" =>
    /\ Len(client.requests) <= Len(LoginSteps)
    /\ StepsIssued = SubSeq(LoginSteps, 1, Len(client.requests))
    /\ client.pc = "login_page" => Len(client.requests) = 1
    /\ client.pc = "login_post" => Len(client.requests) = 2
    /\ client.pc \in {"verify", "returned"} => Len(client.requests) = 3
    /\ (client.loginPage # Undef /\ TokenAbsent(client.loginPage[1])) =>
         /\ client.pc = "thrown"
         /\ client.error # Undef
         /\ Len(client.requests) = 1
    /\ (client.loginResponse # Undef
          /\ (client.loginResponse[1].throws
                \/ client.loginResponse[1].sessionCookie = Undef)) =>
         /\ client.pc = "thrown"
         /\ client.error # Undef
         /\ Len(client.requests) = 2

C20_Witness ==
  /\ client.pc = "thrown"
  /\ client.loginPage # Undef
  /\ ~TokenAbsent(client.loginPage[1])
  /\ client.loginResponse # Undef
  /\ ~client.loginResponse[1].throws
  /\ client.loginResponse[1].ok
  /\ client.loginResponse[1].sessionCookie = Undef
  /\ Len(client.requests) = 2

(***************************************************************************)
(* Two submissions of the login form overlap: handleLogin awaits           *)
(* authService.login without disabling the form, so a second login call    *)
(* can start on the same AuthService while the first is at an await.       *)
(* sessionId, authenticityToken and localStorage belong to the service;    *)
(* everything else belongs to one call.                                    *)
(***************************************************************************)
LoginCalls == {1, 2}

\* What one call of login holds by itself.
IdleCall ==
  [pc |-> "idle", credentials |-> Undef, requests |-> <<>>,
   loginPage |-> Undef, loginResponse |-> Undef, verification |-> Undef,
   error |-> Undef]

\* The service as call k sees it.
CallView(k) ==
  [pc |-> client.calls[k].pc, credentials |-> client.calls[k].credentials,
   requests |-> client.calls[k].requests,
   loginPage |-> client.calls[k].loginPage,
   loginResponse |-> client.calls[k].loginResponse,
   verification |-> client.calls[k].verification,
   error |-> client.calls[k].error,
   sessionId |-> client.sessionId,
   authenticityToken |-> client.authenticityToken,
   storage |-> client.storage]

\* Call k has taken a step that leaves the service as au.
CallStep(k, au) ==
  client' =
    [sessionId |-> au.sessionId, authenticityToken |-> au.authenticityToken,
     storage |-> au.storage,
     calls |-> [client.calls EXCEPT ![k] =
                  [pc |-> au.pc, credentials |-> au.credentials,
                   requests |-> au.requests, loginPage |-> au.loginPage,
                   loginResponse |-> au.loginResponse,
                   verification |-> au.verification, error |-> au.error]]]

InitOverlap ==
  /\ WorkerIdle
  /\ client = [sessionId |-> Undef, authenticityToken |-> Undef,
               storage |-> [sessionId |-> Undef, authenticityToken |-> Undef],
               calls |-> [k \in LoginCalls |-> IdleCall]]

\* The form is submitted; the second submission comes after the first.
SubmitLogin ==
  \E k \in LoginCalls, c \in LoginCredentials :
    /\ client.calls[k].pc = "idle"
    /\ \A j \in LoginCalls : j < k => client.calls[j].pc # "idle"
    /\ CallStep(k, BeginLogin(CallView(k), c))
    /\ UNCHANGED <<env, kv, active, run>>

LoginPageArrives ==
  \E k \in LoginCalls, reply \in LoginPageReplies :
    /\ client.calls[k].pc = "login_page"
    /\ CallStep(k, OnLoginPage(CallView(k), reply))
    /\ UNCHANGED <<env, kv, active, run>>

LoginResponseArrives ==
  \E k \in LoginCalls, reply \in LoginPostReplies :
    /\ client.calls[k].pc = "login_post"
    /\ CallStep(k, OnLoginResponse(CallView(k), reply))
    /\ UNCHANGED <<env, kv, active, run>>

VerificationArrives ==
  \E k \in LoginCalls, reply \in VerifyReplies :
    /\ client.calls[k].pc = "verify"
    /\ CallStep(k, OnVerification(CallView(k), reply))
    /\ UNCHANGED <<env, kv, active, run>>

NextOverlap ==
  SubmitLogin \/ LoginPageArrives \/ LoginResponseArrives \/ VerificationArrives

SpecOverlap == InitOverlap /\ [][NextOverlap]_vars

(***************************************************************************)
(* C21. Whenever login returns successfully, sessionId and                 *)
(* authenticityToken are both non-null, both were obtained during this     *)
(* login call (the session from its login response, the token from the     *)
(* verification page fetched with that session), and localStorage holds    *)
(* exactly this pair.                                                      *)
(***************************************************************************)
C21_ReturnedLoginHoldsItsOwnPair ==
  [][\A k \in LoginCalls :
       (client.calls[k].pc = "verify" /\ client'.calls[k].pc = "returned") =>
         LET call == client'.calls[k]
         IN  /\ ~Falsy(client'.sessionId)
             /\ ~Falsy(client'.authenticityToken)
             /\ client'.sessionId = call.loginResponse[1].sessionCookie
             /\ call.requests[3].headers["X-Session-Cookie"] = client'.sessionId
             /\ client'.authenticityToken
                  = ExtractAuthenticityToken(call.verification[1].html)
             /\ client'.storage
                  = [sessionId |-> call.loginResponse[1].sessionCookie,
                     authenticityToken |-> client'.authenticityToken]]_vars

(***************************************************************************)
(* The page searches: APIService.searchCourts, searchMultipleSlots with    *)
(* its fallback to single probes, and renderCourtsResults.                 *)
(***************************************************************************)
\* Longest list of slots the page searches.
MaxProbes == 4

\* const batchSize = 3 of the fallback loop.
FallbackBatchSize == 3

\* The slots of generateTimeSlotsForDate, by their times.
PageSlots == {SubSeq(BaseSlots, 1, n) : n \in 0..MaxProbes}

\* authService.getTokens(): after a login, after a login that kept only the
\* session, and after logout.
TokenStates ==
  {[sessionId |-> SessionId, authenticityToken |-> AuthenticityToken],
   [sessionId |-> SessionId, authenticityToken |-> Undefined],
   [sessionId |-> Undefined, authenticityToken |-> Undefined]}

\* if (!tokens.sessionId || !tokens.authenticityToken) throw ...
NotAuthenticated(tokens) ==
  ~Truthy(tokens.sessionId) \/ ~Truthy(tokens.authenticityToken)

\* The upstream answer to a session it no longer accepts: a script that
\* sends the browser to the login page, without the jQuery wrapper.
RawRedirectToLogin ==
  [wrapped |-> FALSE, success |-> FALSE, markers |-> {}, rows |-> <<>>,
   headings |-> <<>>, redirectToLogin |-> TRUE]

\* What the worker's proxy can answer to one search_court.js request.
PageProbeReplies ==
  ProbeReplies
    \cup {[throws |-> FALSE, ok |-> TRUE, status |-> "200", text |-> t] :
            t \in {RawNoCourts, RawRedirectToLogin}}

\* `${formatDate(date)}_${slot.time}`
ResultKey(time) == Date \o "_" \o time

\* The fetch of searchCourts.
CourtsRequest(tokens, time) ==
  [method |-> "POST",
   url |-> <<WORKER_URL, "/proxy/self_services/search_court.js">>,
   headers |-> [h \in {"Content-Type", "X-Session-Cookie"} |->
                  IF h = "Content-Type" THEN "application/x-www-form-urlencoded"
                  ELSE tokens.sessionId],
   form |-> [authenticity_token |-> tokens.authenticityToken,
             unit_id |-> "12", court_type |-> "1", start_date |-> Date,
             start_hour |-> time, duration |-> "1"]]

\* What searchCourts returns for the answer to its fetch: every throw
\* inside it is caught and gives null.
SearchCourtsResult(reply) ==
  IF reply.throws THEN Undef
  ELSE IF ~reply.ok THEN Undef
  ELSE IF ParseCourtAvailabilityThrows(reply.text) THEN Undef
  ELSE Defined(ParseCourtAvailability(reply.text))

\* The fetch of searchMultipleSlots to the batch endpoint.
BatchRequest(tokens, slots) ==
  [method |-> "POST", url |-> <<WORKER_URL, "/api/search-courts">>,
   headers |-> [h \in {"Content-Type", "X-Session-Cookie"} |->
                  IF h = "Content-Type" THEN "application/json"
                  ELSE tokens.sessionId],
   body |-> [unitId |-> "12", date |-> Date, timeSlots |-> slots,
             sessionId |-> tokens.sessionId,
             authenticityToken |-> tokens.authenticityToken]]

\* The results objects the worker can answer with for the slots asked.
WorkerResults(slots) ==
  LET times == {slots[n] : n \in 1..Len(slots)}
  IN  {[t \in times |-> JsonResult(ParseCourtAvailability(RawAvailable))],
       [t \in times |->
          IF t = slots[1]
          THEN [status |-> "error", error |-> NetworkErrorMessage]
          ELSE JsonResult(ParseCourtAvailability(RawNoCourts))]}

\* What the worker can answer to the batch request: the fetch rejects, a
\* status that is not 2xx, a body that is not JSON (an event stream), JSON
\* null, JSON without results, or the results.
BatchReplies(slots) ==
  {[throws |-> TRUE]}
    \cup {[throws |-> FALSE, ok |-> FALSE, status |-> st, json |-> Undef] :
            st \in {"403", "500"}}
    \cup {[throws |-> FALSE, ok |-> TRUE, status |-> "200", json |-> j] :
            j \in {Undef, Defined(JsonNull),
                   Defined([error |-> "Missing required parameters"])}}
    \cup {[throws |-> FALSE, ok |-> TRUE, status |-> "200",
           json |-> Defined([unitId |-> "12", date |-> Date, results |-> m,
                             cached |-> c])] :
            m \in WorkerResults(slots), c \in BOOLEAN}

\* The try block of searchMultipleSlots throws on this answer.
BatchThrows(reply) ==
  \/ reply.throws
  \/ ~reply.ok
  \/ reply.json = Undef
  \/ reply.json[1] = JsonNull
  \/ "results" \notin DOMAIN reply.json[1]

\* Object.entries(data.results).forEach(... results.set(key, availability))
BatchResultsMap(data) ==
  [key \in {ResultKey(t) : t \in DOMAIN data.results} |->
     data.results[CHOOSE t \in DOMAIN data.results : ResultKey(t) = key]]

\* Mutant: the fallback loop runs once.
FallbackLoop_FirstGroupOnly(c, i) ==
  IF i = 0 /\ i < Len(c.slots)
  THEN LET end == Min(i + FallbackBatchSize, Len(c.slots))
       IN  IF NotAuthenticated(c.tokens)
           THEN [c EXCEPT !.pc = "gathered", !.i = i, !.issued = end,
                   !.settled = [k \in 1..end |->
                                  [reply |-> Undef, availability |-> Undef]]]
           ELSE [c EXCEPT !.pc = "probing", !.i = i, !.issued = end,
                   !.requests = @ \o [k \in 1..(end - i) |->
                                        CourtsRequest(c.tokens, c.slots[i + k])]]
  ELSE [c EXCEPT !.pc = "returned", !.i = i]

\* for (let i = ...; i < slots.length; ...) of the fallback: searchCourts is
\* called for every slot of slots.slice(i, i + batchSize) before the first
\* await. Not authenticated, each call throws and returns null without a
\* fetch; else each issues its fetch.
FallbackLoop(c, i) ==
  IF i < Len(c.slots)
  THEN LET end == Min(i + FallbackBatchSize, Len(c.slots))
       IN  IF NotAuthenticated(c.tokens)
           THEN [c EXCEPT !.pc = "gathered", !.i = i, !.issued = end,
                   !.settled = [k \in 1..end |->
                                  IF k <= i THEN c.settled[k]
                                  ELSE [reply |-> Undef, availability |-> Undef]]]
           ELSE [c EXCEPT !.pc = "probing", !.i = i, !.issued = end,
                   !.requests = @ \o [k \in 1..(end - i) |->
                                        CourtsRequest(c.tokens, c.slots[i + k])]]
  ELSE [c EXCEPT !.pc = "returned", !.i = i]

\* batchResults.forEach(({ key, availability }) => { if (availability)
\* results.set(key, availability) }) over positions from..to
RECURSIVE RecordFallback(_, _, _, _, _)
RecordFallback(results, slots, settled, from, to) ==
  IF from > to THEN results
  ELSE RecordFallback(
         IF settled[from].availability # Undef
         THEN Put(results, ResultKey(slots[from]), settled[from].availability[1])
         ELSE results,
         slots, settled, from + 1, to)

\* results.get(key)
MapGet(map, key) == IF key \in DOMAIN map THEN Defined(map[key]) ELSE Undef

\* What renderCourtsResults shows for one slot: the class of its element,
\* its badge, and the number of courts when there are any.
RenderSlot(result) ==
  IF result = Undef
  THEN [className |-> "time-slot loading", badge |-> "status-badge loading",
        courts |-> 0]
  ELSE IF result[1].status = "available"
  THEN [className |-> "time-slot available", badge |-> "status-badge available",
        courts |-> Len(result[1].courts)]
  ELSE [className |-> "time-slot unavailable",
        badge |-> "status-badge unavailable", courts |-> 0]

InitSearch ==
  /\ WorkerIdle
  /\ client \in
       {[pc |-> "ready", tokens |-> t, slots |-> sl, batch |-> Undef,
         fallback |-> FALSE, i |-> 0, issued |-> 0, requests |-> <<>>,
         settled |-> <<>>, results |-> EmptyMap, rendered |-> <<>>] :
          t \in TokenStates, sl \in PageSlots}

\* searchMultipleSlots(unitId, date, slots) up to its first await: not
\* authenticated, the try block throws at once and the fallback starts;
\* else the batch request is sent.
SearchMultipleSlots ==
  /\ client.pc = "ready"
  /\ client' =
       IF NotAuthenticated(client.tokens)
       THEN FallbackLoop([client EXCEPT !.fallback = TRUE], 0)
       ELSE [client EXCEPT !.pc = "batch",
               !.requests = <<BatchRequest(client.tokens, client.slots)>>]
  /\ UNCHANGED <<env, kv, active, run>>

\* The answer to the batch request: its results become the Map, or the try
\* block throws and the fallback starts.
BatchReply ==
  /\ client.pc = "batch"
  /\ \E reply \in BatchReplies(client.slots) :
       client' =
         IF BatchThrows(reply)
         THEN FallbackLoop([client EXCEPT !.batch = Defined(reply),
                                          !.fallback = TRUE], 0)
         ELSE [client EXCEPT !.pc = "returned", !.batch = Defined(reply),
                 !.results = BatchResultsMap(reply.json[1])]
  /\ UNCHANGED <<env, kv, active, run>>

\* One searchCourts of the group gets its answer.
ProbeSettles ==
  \E k \in 1..(MaxProbes + 1), reply \in PageProbeReplies :
    /\ client.pc = "probing"
    /\ k \in (client.i + 1)..client.issued
    /\ k \notin DOMAIN client.settled
    /\ LET settled == Put(client.settled, k,
                          [reply |-> Defined(reply),
                           availability |-> SearchCourtsResult(reply)])
       IN  client' = [client EXCEPT !.settled = settled,
                        !.pc = IF DOMAIN settled = 1..client.issued
                               THEN "gathered" ELSE "probing"]
    /\ UNCHANGED <<env, kv, active, run>>

\* Promise.all resolves: the group is recorded; pause, or leave the loop.
FallbackRecordGroup ==
  /\ client.pc = "gathered"
  /\ LET rec == [client EXCEPT !.results =
                   RecordFallback(client.results, client.slots, client.settled,
                                  client.i + 1, client.issued)]
     IN  client' =
           IF client.i + FallbackBatchSize < Len(client.slots)
           THEN [rec EXCEPT !.pc = "delay"]
           ELSE FallbackLoop(rec, client.i + FallbackBatchSize)
  /\ UNCHANGED <<env, kv, active, run>>

\* The setTimeout between two groups fires.
FallbackDelay ==
  /\ client.pc = "delay"
  /\ client' = FallbackLoop(client, client.i + FallbackBatchSize)
  /\ UNCHANGED <<env, kv, active, run>>

\* renderCourtsResults(slots, results, date) on the Map returned.
RenderCourtsResults ==
  /\ client.pc = "returned"
  /\ client' = [client EXCEPT !.pc = "rendered",
                  !.rendered = [n \in 1..Len(client.slots) |->
                                  RenderSlot(MapGet(client.results,
                                                    ResultKey(client.slots[n])))]]
  /\ UNCHANGED <<env, kv, active, run>>

NextSearch ==
  \/ SearchMultipleSlots
  \/ BatchReply
  \/ ProbeSettles
  \/ FallbackRecordGroup
  \/ FallbackDelay
  \/ RenderCourtsResults

SpecSearch == InitSearch /\ [][NextSearch]_vars

\* The answer a settled probe got carries the redirect-to-login signal.
RejectedByUpstream(probe) ==
  /\ probe.reply # Undef
  /\ ~probe.reply[1].throws
  /\ "redirectToLogin" \in DOMAIN probe.reply[1].text

(***************************************************************************)
(* C22. When the upstream response to an authenticated request carries the *)
(* redirect-to-login signal, the session stops being treated as            *)
(* authenticated and the response is not turned into availability data.    *)
(***************************************************************************)
C22_RejectedSessionIsInvalidated ==
  client.pc \in {"probing", "gathered", "delay", "returned", "rendered"} =>
    \A k \in DOMAIN client.settled :
      RejectedByUpstream(client.settled[k]) =>
        /\ NotAuthenticated(client.tokens)
        /\ client.settled[k].availability = Undef

\* The status of the result the Map holds for the slot at position n.
StatusShown(n) ==
  LET key == ResultKey(client.slots[n])
  IN  IF key \in DOMAIN client.results THEN client.results[key].status
      ELSE "none"

(***************************************************************************)
(* C23. A slot whose result has status 'error' is never put in the same    *)
(* displayed state as a slot whose status is 'no-courts'.                  *)
(***************************************************************************)
C23_ErrorIsNotShownAsUnavailable ==
  client.pc = "rendered" =>
    \A j, k \in 1..Len(client.slots) :
      (StatusShown(j) = "error" /\ StatusShown(k) = "no-courts") =>
        client.rendered[j] # client.rendered[k]

\* The batch request failed: no tokens, a rejected fetch, a status that is
\* not 2xx, a body that is not JSON, or JSON without a results object.
BatchRequestFailed ==
  \/ client.tokens.sessionId = Undefined
  \/ client.tokens.authenticityToken = Undefined
  \/ /\ client.batch # Undef
     /\ \/ client.batch[1].throws
        \/ client.batch[1].status # "200"
        \/ client.batch[1].json = Undef
        \/ client.batch[1].json[1] = JsonNull
        \/ "results" \notin DOMAIN client.batch[1].json[1]

\* The requests made to the proxy for single slots, by start hour.
ProbedHours ==
  LET IsProbe(req) == req.url[2] = "/proxy/self_services/search_court.js"
      probes == SelectSeq(client.requests, IsProbe)
  IN  [n \in 1..Len(probes) |-> probes[n].form.start_hour]

(***************************************************************************)
(* C24. If the batch request to /api/search-courts fails in any way (not   *)
(* authenticated, network error, non-2xx status, unparsable or malformed   *)
(* body), searchMultipleSlots does not throw: it falls back to probing     *)
(* every slot individually through searchCourts in groups of 3 and returns *)
(* a Map of the results.                                                   *)
(***************************************************************************)
C24_BatchFailureFallsBack ==
  /\ client.pc # "thrown"
  /\ (BatchRequestFailed /\ client.pc # "ready") =>
       /\ client.fallback
       /\ client.i % 3 = 0
       /\ client.issued <= client.i + 3
       /\ \A k \in 1..client.i :
            k <= Len(client.slots) => k \in DOMAIN client.settled
       /\ ~NotAuthenticated(client.tokens) =>
            ProbedHours = SubSeq(client.slots, 1, client.issued)
       /\ client.pc \in {"returned", "rendered"} =>
            /\ client.issued = Len(client.slots)
            /\ DOMAIN client.settled = 1..Len(client.slots)
            /\ \A n \in 1..Len(client.slots) :
                 client.settled[n].availability # Undef =>
                   /\ ResultKey(client.slots[n]) \in DOMAIN client.results
                   /\ client.results[ResultKey(client.slots[n])]
                        = client.settled[n].availability[1]

C24_Witness ==
  /\ client.pc = "returned"
  /\ client.batch # Undef
  /\ ~client.batch[1].throws
  /\ client.batch[1].status = "200"
  /\ client.batch[1].json # Undef
  /\ client.fallback
  /\ Len(client.slots) = 4
  /\ Len(ProbedHours) = 4
  /\ ResultKey("11:00") \in DOMAIN client.results

(***************************************************************************)
(* C25. In the fallback path of searchMultipleSlots the returned Map has   *)
(* an entry for every requested slot, and the entry of a slot whose probe  *)
(* failed has status 'error'.                                              *)
(***************************************************************************)
C25_FallbackFailureIsAnErrorEntry ==
  (client.pc \in {"returned", "rendered"} /\ client.fallback) =>
    \A n \in 1..Len(client.slots) :
      /\ ResultKey(client.slots[n]) \in DOMAIN client.results
      /\ client.settled[n].availability = Undef =>
           client.results[ResultKey(client.slots[n])].status = "error"

(***************************************************************************)
(* The three places that probe in groups, side by side: the streaming and  *)
(* the non-streaming handler of the worker, and the fallback loop of the   *)
(* page. A behaviour is one of the worker or one of the page.              *)
(***************************************************************************)
InitGroups == Init \/ InitSearch

NextGroups == Next \/ NextSearch

SpecGroups == InitGroups /\ [][NextGroups]_vars

\* The fallback loop of the page is running or has run.
InFallback ==
  client.pc \in {"probing", "gathered", "delay", "returned", "rendered"}
    /\ client.fallback

(***************************************************************************)
(* C28. At every moment of one run the number of upstream probes in flight *)
(* is at most the batch size (2 in the streaming handler, 3 in the         *)
(* non-streaming handler and in the fallback of the page); groups are      *)
(* consecutive slices of the requested slots in original order.            *)
(***************************************************************************)
C28_ProbesInFlightBounded ==
  /\ \A r \in Runs :
       LET rn    == run[r]
           ts    == TimeSlotsOf(rn)
           limit == IF env.variant = "stream" THEN 2 ELSE 3
       IN  Orchestrated(rn) =>
             /\ rn.issued - Cardinality(DOMAIN rn.settled) <= limit
             /\ Len(rn.upstream) = rn.issued
             /\ \A k \in 1..rn.issued : rn.upstream[k].form.start_hour = ts[k]
             /\ rn.pc = "group" =>
                  /\ rn.i % limit = 0
                  /\ rn.issued = Min(rn.i + limit, Len(ts))
                  /\ \A k \in 1..rn.i : k \in DOMAIN rn.settled
  /\ InFallback =>
       /\ Len(ProbedHours)
            - Cardinality({k \in DOMAIN client.settled :
                             client.settled[k].reply # Undef}) <= 3
       /\ ProbedHours = SubSeq(client.slots, 1, Len(ProbedHours))
       /\ client.pc = "probing" =>
            /\ client.i % 3 = 0
            /\ client.issued = Min(client.i + 3, Len(client.slots))
            /\ Len(ProbedHours) = client.issued
            /\ \A k \in 1..client.i : k \in DOMAIN client.settled

C28_Witness ==
  \E r \in Runs :
    /\ Orchestrated(run[r])
    /\ env.variant = "stream"
    /\ run[r].pc = "group"
    /\ run[r].issued = 4
    /\ DOMAIN run[r].settled = {1, 2}

(***************************************************************************)
(* C29. Between any two consecutive groups of one run a pause elapses: the *)
(* first probe of group k+1 is issued only after the fixed delay that      *)
(* follows group k has finished; no pause is inserted after the last       *)
(* group.                                                                  *)
(***************************************************************************)
C29_PauseBetweenGroups ==
  [][/\ \A r \in Runs :
          Orchestrated(run[r]) =>
            /\ (run'[r].issued > run[r].issued) =>
                 /\ run[r].pc = "delay"
                 /\ run[r].recorded = run[r].issued
            /\ (run'[r].pc = "delay" /\ run[r].pc # "delay") =>
                 /\ run[r].pc = "gathered"
                 /\ run'[r].recorded = run'[r].issued
                 /\ run'[r].issued < Len(TimeSlotsOf(run[r]))
            /\ (run[r].pc = "gathered" /\ run'[r].pc \notin {"gathered", "delay"}) =>
                 run[r].issued = Len(TimeSlotsOf(run[r]))
     /\ InFallback =>
          /\ (client'.issued > client.issued) =>
               /\ client.pc = "delay"
               /\ DOMAIN client.settled = 1..client.issued
          /\ (client'.pc = "delay" /\ client.pc # "delay") =>
               /\ client.pc = "gathered"
               /\ client'.issued < Len(client.slots)
          /\ (client.pc = "gathered" /\ client'.pc # "delay") =>
               client.issued = Len(client.slots)]_vars

C29_Witness ==
  \E r \in Runs :
    /\ Orchestrated(run[r])
    /\ env.variant = "batch"
    /\ run[r].pc = "delay"
    /\ run[r].issued = 3
    /\ Len(TimeSlotsOf(run[r])) = 4

(***************************************************************************)
(* Two invocations of the search handler for one cache key, running        *)
(* concurrently in a deployment with COURTS_CACHE bound. Both requests     *)
(* were accepted and parsed; each stands before its cache lookup. The      *)
(* requests name the same unit and date and may list different slots.      *)
(***************************************************************************)
ConcurrentBodies ==
  {SearchBody("12", SubSeq(BaseSlots, 1, 2)), SearchBody("12", SubSeq(BaseSlots, 1, 3))}

ParsedRun(e, body) ==
  [IdleRun EXCEPT
     !.pc = "cache_get",
     !.req = [method |-> "POST", path |-> SearchRoute, origin |-> DefaultOrigin,
              sessionCookie |-> Undefined, body |-> body],
     !.allowedOrigin = NegotiatedOrigin(e, DefaultOrigin)]

InitConcurrent ==
  /\ env \in {e \in Deployments : e.COURTS_CACHE}
  /\ kv = EmptyMap
  /\ active = Runs
  /\ run \in [Runs -> {ParsedRun(env, b) : b \in ConcurrentBodies}]
  /\ client = IdleClient

NextConcurrent ==
  \/ \E r \in Runs :
       \/ CacheGet(r)
       \/ Settle(r)
       \/ EmitResult(r)
       \/ GroupEmitted(r)
       \/ RecordGroup(r)
       \/ Delay(r)
       \/ CachePut(r)
  \/ Expire

SpecConcurrent == InitConcurrent /\ [][NextConcurrent]_vars

\* The key both invocations read and write.
SharedKey == CacheKey("12", Date)

\* The invocation wrote the cache in this step.
WroteCache(r) == Len(Puts(run'[r])) > Len(Puts(run[r]))

\* The entry holds the final map of the invocation, one result per slot the
\* invocation was asked for.
HoldsFinalMapOf(entry, rn) ==
  /\ HasFinalMap(rn)
  /\ entry.value.results = FinalMap(rn)
  /\ DOMAIN entry.value.results = RequestedSlots(rn)
  /\ entry.value.unitId = rn.req.body.unitId
  /\ entry.value.date = rn.req.body.date

(***************************************************************************)
(* C30. Two search runs for the same (unitId, date) key run concurrently   *)
(* and both miss the cache: in every interleaving the cache entry of the   *)
(* key is absent or is exactly the complete result map of the run that     *)
(* wrote last; it is never a partial map and never a merge of the two      *)
(* runs' results.                                                          *)
(***************************************************************************)
C30_LastWriterWins ==
  /\ [](DOMAIN kv \subseteq {SharedKey}
          /\ (SharedKey \in DOMAIN kv =>
                \E r \in Runs : /\ Puts(run[r]) # <<>>
                                /\ HoldsFinalMapOf(kv[SharedKey], run[r])))
  /\ [][IF \E r \in Runs : WroteCache(r)
        THEN \A r \in Runs :
               WroteCache(r) =>
                 /\ SharedKey \in DOMAIN kv'
                 /\ HoldsFinalMapOf(kv'[SharedKey], run'[r])
        ELSE SharedKey \in DOMAIN kv' =>
               SharedKey \in DOMAIN kv /\ kv'[SharedKey] = kv[SharedKey]]_vars

\* Both invocations missed the cache and wrote different maps; the entry is
\* one of the two.
C30_Witness ==
  /\ \A r \in Runs : /\ Orchestrated(run[r])
                     /\ run[r].pc = "done"
                     /\ Puts(run[r]) # <<>>
  /\ FinalMap(run[1]) # FinalMap(run[2])
  /\ DOMAIN FinalMap(run[1]) # DOMAIN FinalMap(run[2])
  /\ SharedKey \in DOMAIN kv
  /\ kv[SharedKey].value.results = FinalMap(run[2])

(***************************************************************************)
(* The streaming handler followed to the end of its background task,       *)
(* failures included: the slice of a non-array timeSlots has no map, the   *)
(* cache put is rejected, a write to the stream is rejected because the    *)
(* consumer went away. The request was accepted and stands before          *)
(* request.json().                                                         *)
(***************************************************************************)
\* "timeSlots": "08:00"
StringBody ==
  [unitId |-> "12", date |-> Date, timeSlots |-> <<"0", "8", ":", "0", "0">>,
   sessionId |-> SessionId, authenticityToken |-> AuthenticityToken,
   timeSlotsIsString |-> TRUE]

StreamBodies ==
  {SearchBody("12", SubSeq(BaseSlots, 1, n)) : n \in 0..3} \cup {StringBody}

RoutedRun(e, body) ==
  [IdleRun EXCEPT
     !.pc = "json",
     !.req = [method |-> "POST", path |-> SearchRoute, origin |-> DefaultOrigin,
              sessionCookie |-> Undefined, body |-> body],
     !.allowedOrigin = NegotiatedOrigin(e, DefaultOrigin)]

InitStream ==
  /\ env \in {e \in Deployments : e.variant = "stream"}
  /\ kv \in IF env.COURTS_CACHE THEN InitialStores ELSE {EmptyMap}
  /\ active = {1}
  /\ \E b \in StreamBodies :
       run = [r \in Runs |-> IF r = 1 THEN RoutedRun(env, b) ELSE IdleRun]
  /\ client = IdleClient

KVPutErrorMessage == "KV PUT failed: 429 Too Many Requests"

\* await env.COURTS_CACHE.put(...) is rejected: nothing is stored, the catch
\* writes the 'error' event after the 'complete' event, the writer is closed.
CachePutFails(r) ==
  /\ r \in active
  /\ env.variant = "stream"
  /\ run[r].pc = "cache"
  /\ CacheConfigured(env)
  /\ LET rn       == run[r]
         body     == rn.req.body
         cacheKey == CacheKey(body.unitId, body.date)
         logged   == [rn EXCEPT !.kvlog =
                        Append(@, [op |-> "put", key |-> cacheKey,
                                   value |-> CacheData(body, rn.results),
                                   options |-> PutOptions, threw |-> TRUE])]
     IN  run' = [run EXCEPT ![r] = TaskFailure(env, logged, KVPutErrorMessage)]
  /\ UNCHANGED <<env, kv, active, client>>

\* Mutant: the catch stores what was gathered so far.
WriteRejects_CachesPartial(r) ==
  /\ r \in active
  /\ env.variant = "stream"
  /\ run[r].pc = "gathered"
  /\ LET body     == run[r].req.body
         cacheKey == CacheKey(body.unitId, body.date)
     IN  kv' = IF CacheConfigured(env)
               THEN Put(kv, cacheKey, [value |-> CacheData(body, run[r].results),
                                       options |-> PutOptions])
               ELSE kv
  /\ run' = [run EXCEPT ![r] = [@ EXCEPT !.pc = "done"]]
  /\ UNCHANGED <<env, active, client>>

\* await writer.write(...) of a 'result' or of the 'complete' event is
\* rejected (the readable side was cancelled): the write in the catch and
\* the close in finally are rejected too. The task ends; nothing more is
\* written and the cache is not touched.
WriteRejects(r) ==
  /\ r \in active
  /\ env.variant = "stream"
  /\ run[r].pc = "gathered"
  /\ run' = [run EXCEPT ![r] = [@ EXCEPT !.pc = "done"]]
  /\ UNCHANGED <<env, kv, active, client>>

\* One step of the handler and of its background task while the consumer
\* keeps reading.
StreamStep(r) ==
  \/ ParseBody(r)
  \/ CacheGet(r)
  \/ Settle(r)
  \/ EmitResult(r)
  \/ GroupEmitted(r)
  \/ Delay(r)
  \/ CachePut(r)
  \/ CachePutFails(r)

NextStream ==
  \/ \E r \in Runs :
       \/ StreamStep(r)
       \/ WriteRejects(r)
  \/ Expire

SpecStream == InitStream /\ [][NextStream]_vars

NextStreamLive ==
  \/ \E r \in Runs : StreamStep(r)
  \/ Expire

\* The event loop runs every continuation that is ready: request.json() and
\* the KV calls settle, the timer between two groups fires, and every probe
\* settles (the hypothesis of the claim).
SpecStreamLive ==
  InitStream /\ [][NextStreamLive]_vars /\ WF_vars(\E r \in Runs : StreamStep(r))

IsErrorEvent(e) == e.type = "error"
ErrorEvents(rn) == SelectSeq(rn.events, IsErrorEvent)

\* The puts that stored their value.
IsStoredPut(c) == c.op = "put" /\ "threw" \notin DOMAIN c
StoredPuts(rn) == SelectSeq(rn.kvlog, IsStoredPut)

\* The stream of the invocation ended with an 'error' event.
EndedWithError(rn) ==
  rn.events # <<>> /\ rn.events[Len(rn.events)].type = "error"

\* The streaming task ended without closing the stream.
CutOff(rn) == rn.pc = "done" /\ rn.response.kind = "stream" /\ ~rn.closed

\* Every group of the invocation has resolved and was recorded, and the
\* 'complete' event was written.
BatchCompleted(rn) ==
  /\ TimeSlotsIsArray(rn.req.body)
  /\ DOMAIN rn.settled = 1..Len(TimeSlotsOf(rn))
  /\ rn.recorded = Len(TimeSlotsOf(rn))
  /\ Len(CompleteEvents(rn)) = 1
  /\ DOMAIN CompleteEvents(rn)[1].results = RequestedSlots(rn)

(***************************************************************************)
(* C31. The cache is written only when a full batch completes: the write   *)
(* happens after every group has resolved and after the 'complete' event   *)
(* was written; a run that ends with an 'error' event or is cut off before *)
(* completion writes nothing, so no partial result map is ever cached.     *)
(***************************************************************************)
C31_CacheWrittenOnlyOnCompletion ==
  /\ [](\A r \in Runs :
          /\ (EndedWithError(run[r]) \/ CutOff(run[r])) => StoredPuts(run[r]) = <<>>
          /\ StoredPuts(run[r]) # <<>> =>
               /\ BatchCompleted(run[r])
               /\ StoredPuts(run[r])[1].value.results
                    = CompleteEvents(run[r])[1].results)
  /\ [][\A key \in DOMAIN kv' :
          (key \notin DOMAIN kv \/ kv'[key] # kv[key]) =>
            \E r \in Runs :
              /\ run[r].pc = "cache"
              /\ BatchCompleted(run[r])
              /\ key = CacheKey(run[r].req.body.unitId, run[r].req.body.date)
              /\ kv'[key].value.results = CompleteEvents(run[r])[1].results]_vars

\* A run of three slots wrote the cache after its 'complete' event.
C31_Witness ==
  \E r \in Runs :
    /\ run[r].pc = "done"
    /\ run[r].closed
    /\ Len(ResultEvents(run[r])) = 3
    /\ StoredPuts(run[r]) # <<>>
    /\ CacheKey("12", Date) \in DOMAIN kv
    /\ kv[CacheKey("12", Date)].value.results = CompleteEvents(run[r])[1].results

\* What the consumer has received when the stream is closed: 'result'
\* events first, then one 'complete' event, one 'error' event, or both.
Terminated(rn) ==
  LET ev == rn.events IN
  /\ ev # <<>>
  /\ ev[Len(ev)].type \in {"complete", "error"}
  /\ Len(CompleteEvents(rn)) <= 1
  /\ Len(ErrorEvents(rn)) <= 1
  /\ \A k \in 1..Len(ev) :
       ev[k].type = "result" => \A j \in 1..k : ev[j].type = "result"

C33_BatchFetchFailureIsPerSlot ==
  \A r \in Runs :
    LET rn == run[r] IN
    (env.variant = "batch" /\ Orchestrated(rn) /\ rn.pc = "done") =>
      \/ /\ rn.response.status = 200
         /\ DOMAIN rn.response.body.results = RequestedSlots(rn)
         /\ Len(rn.upstream) = Len(TimeSlotsOf(rn))
      \/ /\ rn.response.status = 500
         /\ rn.response.body.error # SetupErrorPrefix(env) \o NetworkErrorMessage

(***************************************************************************)
(* C34. Every result returned by parseCourtAvailability has status         *)
(* 'available' or 'no-courts'; the status is 'available' only when at      *)
(* least one court slot was extracted (a classification as available that  *)
(* yields zero slots is downgraded), and with status 'no-courts' both      *)
(* courts and slots are empty.                                             *)
(***************************************************************************)
C34_StatusMatchesSlots ==
  client.pc = "returned" =>
    LET result == client.result
        html   == ExtractHtmlFromResponse(client.raw)
    IN  /\ result.status \in {"available", "no-courts"}
        /\ result.status = "available" =>
             /\ Len(result.slots) >= 1
             /\ Len(result.slots) = Len(html.rows)
             /\ Len(result.courts) >= 1
        /\ result.status = "no-courts" =>
             result.courts = <<>> /\ result.slots = <<>>
        /\ (~IsNoCourtsAvailable(html) /\ html.rows = <<>>) => result = Degraded

\* The success marker is present and no court row is: downgraded.
C34_Witness ==
  /\ client.pc = "returned"
  /\ client.raw.wrapped /\ client.raw.success
  /\ client.raw.rows = <<>>
  /\ client.result.status = "no-courts"

\* The first position of x in seq.
FirstIndex(seq, x) == CHOOSE n \in 1..Len(seq) : seq[n] = x /\ \A m \in 1..(n - 1) : seq[m] # x

IsAuthenticated(au) == au.sessionId # Undef /\ au.authenticityToken # Undef

NothingStored == [sessionId |-> Undef, authenticityToken |-> Undef]

\* logout()
Logout(au) ==
  [au EXCEPT !.sessionId = Undef, !.authenticityToken = Undef,
             !.storage = NothingStored]

\* What a login call must leave alone when it fails.
ServiceState(au) ==
  [sessionId |-> au.sessionId, authenticityToken |-> au.authenticityToken,
   storage |-> au.storage]

LoginInFlight(au) == au.pc \in {"login_page", "login_post", "verify"}

NoCall == [name |-> "none", requests |-> <<>>, returned |-> "none"]

\* fetchTimeSlots up to its fetch: if (!tokens.sessionId) throws, and the
\* catch returns [].
FetchTimeSlotsCall(au) ==
  IF Falsy(au.sessionId)
  THEN [name |-> "fetchTimeSlots", requests |-> <<>>, returned |-> "empty"]
  ELSE [name |-> "fetchTimeSlots",
        requests |-> <<[method |-> "POST",
                        url |-> <<WORKER_URL, "/proxy/self_services/set_time_by_unit">>,
                        session |-> au.sessionId]>>,
        returned |-> "pending"]

\* searchCourts up to its fetch: without a session or a token the catch
\* returns null.
SearchCourtsCall(au) ==
  IF Falsy(au.sessionId) \/ Falsy(au.authenticityToken)
  THEN [name |-> "searchCourts", requests |-> <<>>, returned |-> "empty"]
  ELSE [name |-> "searchCourts",
        requests |-> <<[method |-> "POST",
                        url |-> <<WORKER_URL, "/proxy/self_services/search_court.js">>,
                        session |-> au.sessionId]>>,
        returned |-> "pending"]

\* searchMultipleSlots up to its fetch: without a session or a token the
\* try throws, the fallback calls searchCourts for every slot, each returns
\* null, and the Map stays empty.
SearchMultipleSlotsCall(au) ==
  IF Falsy(au.sessionId) \/ Falsy(au.authenticityToken)
  THEN [name |-> "searchMultipleSlots", requests |-> <<>>, returned |-> "empty"]
  ELSE [name |-> "searchMultipleSlots",
        requests |-> <<[method |-> "POST",
                        url |-> <<WORKER_URL, SearchRoute>>,
                        session |-> au.sessionId]>>,
        returned |-> "pending"]

\* The service, with what the properties below need to remember:
\*   before    the service when the login call in progress (or the last
\*             one) began
\*   logoutAt  logout was called "during" that login call, "after" it, or
\*             not since it began ("none")
\*   loggedOut logout was called and no login has returned since
\*   call      the last call of APIService made since the last logout
SessionFields ==
  [before |-> ServiceState(NewAuthService), logoutAt |-> "none",
   loggedOut |-> FALSE, call |-> NoCall]

InitSession ==
  /\ WorkerIdle
  /\ client = [f \in (DOMAIN NewAuthService) \cup (DOMAIN SessionFields) |->
                 IF f \in DOMAIN SessionFields THEN SessionFields[f]
                 ELSE NewAuthService[f]]

\* A login call ends as au.
AfterLoginStep(au) ==
  client' = [au EXCEPT !.loggedOut = IF au.pc = "returned" THEN FALSE ELSE @]

SessionLogin ==
  \E c \in LoginCredentials :
    /\ ~LoginInFlight(client)
    /\ client' = [BeginLogin(client, c) EXCEPT
                    !.before = ServiceState(client), !.logoutAt = "none"]
    /\ UNCHANGED <<env, kv, active, run>>

SessionLoginPage ==
  \E reply \in LoginPageReplies :
    /\ client.pc = "login_page"
    /\ AfterLoginStep(OnLoginPage(client, reply))
    /\ UNCHANGED <<env, kv, active, run>>

SessionLoginResponse ==
  \E reply \in LoginPostReplies :
    /\ client.pc = "login_post"
    /\ AfterLoginStep(OnLoginResponse(client, reply))
    /\ UNCHANGED <<env, kv, active, run>>

SessionVerification ==
  \E reply \in VerifyReplies :
    /\ client.pc = "verify"
    /\ AfterLoginStep(OnVerification(client, reply))
    /\ UNCHANGED <<env, kv, active, run>>

\* handleLogout: authService.logout()
HandleLogout ==
  /\ client' = [Logout(client) EXCEPT
                  !.loggedOut = TRUE,
                  !.logoutAt = IF LoginInFlight(client) \/ @ = "during"
                               THEN "during" ELSE "after",
                  !.call = NoCall]
  /\ UNCHANGED <<env, kv, active, run>>

CallFetchTimeSlots ==
  /\ client' = [client EXCEPT !.call = FetchTimeSlotsCall(client)]
  /\ UNCHANGED <<env, kv, active, run>>

CallSearchCourts ==
  /\ client' = [client EXCEPT !.call = SearchCourtsCall(client)]
  /\ UNCHANGED <<env, kv, active, run>>

CallSearchMultipleSlots ==
  /\ client' = [client EXCEPT !.call = SearchMultipleSlotsCall(client)]
  /\ UNCHANGED <<env, kv, active, run>>

NextSession ==
  \/ SessionLogin
  \/ SessionLoginPage
  \/ SessionLoginResponse
  \/ SessionVerification
  \/ HandleLogout
  \/ CallFetchTimeSlots
  \/ CallSearchCourts
  \/ CallSearchMultipleSlots

SpecSession == InitSession /\ [][NextSession]_vars

(***************************************************************************)
(* C36. A login call that fails (throws at any step) leaves the in-memory  *)
(* sessionId and authenticityToken and the values in localStorage exactly  *)
(* as they were before the call; in particular it never leaves the         *)
(* sessionId of the failed attempt paired with the authenticityToken of    *)
(* an earlier login. (Calls during or after which logout ran are left      *)
(* aside.)                                                                 *)
(***************************************************************************)
C36_FailedLoginChangesNothing ==
  (client.pc = "thrown" /\ client.logoutAt = "none") =>
    ServiceState(client) = client.before

(***************************************************************************)
(* C37. After logout, and until the next successful login,                 *)
(* isAuthenticated() is false, localStorage holds no sessionId and no      *)
(* authenticityToken, and fetchTimeSlots, searchCourts and                 *)
(* searchMultipleSlots issue no network request (they return [], null and  *)
(* an empty Map). (Logouts that ran during a login call are left aside.)   *)
(***************************************************************************)
C37_LoggedOutMeansNoRequests ==
  (client.loggedOut /\ client.logoutAt # "during") =>
    /\ ~IsAuthenticated(client)
    /\ client.storage = NothingStored
    /\ client.call.name # "none" =>
         client.call.requests = <<>> /\ client.call.returned = "empty"

(***************************************************************************)
(* C40. logout() is called while a login() call is in flight: in every     *)
(* interleaving, once both have finished the service is not authenticated  *)
(* and localStorage holds no sessionId and no authenticityToken.           *)
(***************************************************************************)
C40_LogoutDuringLoginWins ==
  (client.logoutAt = "during" /\ ~LoginInFlight(client)) =>
    /\ ~IsAuthenticated(client)
    /\ client.storage = NothingStored

(***************************************************************************)
(* C38. Every 200 JSON response of POST /api/search-courts, a cache hit    *)
(* included, has a results map whose keys are exactly the timeSlots of the *)
(* request it answers.                                                     *)
(* Violated: the cache key names only the unit and the date, and a hit     *)
(* returns the stored entry whole, so a request for other slots receives   *)
(* the keys of the request that filled the cache.                          *)
(***************************************************************************)
C38_ResultsKeyedByRequestedSlots ==
  \A r \in Runs :
    LET rn == run[r] IN
    (/\ rn.pc = "done"
     /\ IsSearchDispatch(env, rn.req)
     /\ rn.response.status = 200
     /\ rn.response.kind = "json") =>
      DOMAIN rn.response.body.results = RequestedSlots(rn)

(***************************************************************************)
(* C39. Whatever env.ALLOWED_ORIGIN is, the origin a preflight advertises  *)
(* in Access-Control-Allow-Origin passes the origin check of the request   *)
(* that follows it.                                                        *)
(* Violated: the proxy-only generation advertises a fixed origin, which    *)
(* its own origin check refuses once env.ALLOWED_ORIGIN names another one. *)
(***************************************************************************)
C39_AdvertisedOriginIsAccepted ==
  \A r \in Runs :
    LET rn == run[r] IN
    (rn.pc = "done" /\ rn.req.method = "OPTIONS") =>
      ~OriginRejected(env, rn.response.headers["Access-Control-Allow-Origin"])

====
